---- MODULE Spec2Model ----
(***************************************************************************)
(* Pocket Scout: candle ring buffer, candle aggregator, signal lifecycle   *)
(* manager, signal loop and the V14 sequence state machine, as state       *)
(* machines translated from the JavaScript sources.                        *)
(*                                                                         *)
(* Prices are small integers (a price in pips).  Time is Date.now() in     *)
(* milliseconds.  null / undefined candles are the record NullCandle.      *)
(***************************************************************************)
EXTENDS Integers, Sequences, FiniteSets, TLC

VARIABLES
  \* --- one ring buffer driven directly (createLocalBuffer / createCircularBuffer)
  ring,               \* the buffer object: [buffer, size, head, cachedResult, cacheValid]
  inserted,           \* ghost: every candle passed to add(), in order, with updateLast applied
  \* --- the content script (driver)
  now,                \* Date.now()
  pairBuffers,        \* pair -> buffer object (NoBuffer before getOrCreateBuffer)
  pairOhlcM1,         \* pair -> snapshot array returned by getAll()
  pairLastPrices,     \* pair -> last accepted price (0 = null)
  pairWarmupComplete, \* pair -> BOOLEAN
  warmupCandlesCount, \* configured warmup
  \* --- the content script with candle histories reduced to what the lifecycle
  \*     manager and the engines' guards read of them
  candleCount,        \* pair -> pairOhlcM1[pair].length
  latestOpenTime,     \* pair -> t of buffer.getLatest() (-1 = no candle)
  tradeDurationMinutes,
  \* --- signal lifecycle manager
  signals,            \* every signal object created, by identity (index)
  signalHistory,      \* identities, newest first
  mostRecentSignal,   \* identity, 0 = null
  pairLastSignals,    \* pair -> identity, 0 = null
  timers,             \* pending setTimeout callbacks of scheduleResultCheck: [sig, fireAt]
  totalSignals, winningSignals, losingSignals,
  highConfSignals, highConfWins, highConfLosses,
  consecutiveLossesCount,
  \* --- signal loop
  signalIntervalMinutes,
  lastSignalTriggeredAtMinute,
  generationCalls,    \* history variable: the instants at which signal generation was invoked
  \* --- decision engines
  pairEngineStates,   \* pair -> engine state (status "null" = null)
  \* --- history variables of the engine specifications
  emitted,            \* pair -> time of the engine's last signal, and whether the
                      \* engine state was discarded since; in the v15 driver:
                      \* pair -> payout and candidate given to the last cycle
                      \* that had a candidate left after its filters
  stalled,            \* pair -> candles added since the engine's last transition into
                      \* its non-IDLE status
  justCalled,         \* the pair the last step called the engine for, "none" otherwise
  fed,                \* progress of the sweep/displacement/CHoCH/retest sequence
  \* --- a decision engine called directly on a candle array
  candles,            \* the array passed to generateSignal
  libs,               \* which libraries were present when the engine was built
  v12Out,             \* what the last call returned (V12NotCalled after the array changed)
  \* --- a stateful decision engine called with the state its last call returned
  engine,             \* which engine was built: "V12", "V14", "V17" or "V18"
  engState,           \* the pairState the caller holds (status "null" = null)
  engOut,             \* the last call: what was passed and what came back
  \* --- history variable of the tick loop
  lastTick            \* the entries the last pass of tickLoop read, and the driver's maps before it

bufVars == <<ring, inserted>>
aggVars == <<now, pairBuffers, pairOhlcM1, pairLastPrices, pairWarmupComplete,
            warmupCandlesCount>>
clockVars == <<now>>
histVars == <<candleCount, latestOpenTime>>
cfgVars == <<tradeDurationMinutes>>
statVars == <<totalSignals, winningSignals, losingSignals,
             highConfSignals, highConfWins, highConfLosses, consecutiveLossesCount>>
lifeVars == <<signals, signalHistory, mostRecentSignal, pairLastSignals, timers, statVars>>
loopVars == <<signalIntervalMinutes, lastSignalTriggeredAtMinute, generationCalls>>
obsVars == <<emitted, stalled, justCalled, fed>>
engVars == <<pairEngineStates, obsVars>>
callVars == <<candles, libs, v12Out, engine, engState, engOut, lastTick>>
vars == <<bufVars, aggVars, histVars, cfgVars, lifeVars, loopVars, engVars, callVars>>

----------------------------------------------------------------------------
(* Bounds of the model                                                     *)

\* capacity given to createLocalBuffer / createCircularBuffer in the model
Capacity == 2
\* number of add() calls explored on the directly driven buffer
MaxAdds == 3
\* capacity of the per-pair buffers in the model (getOrCreateBuffer passes 2000)
HistoryCapacity == 2
\* candles appended to a history passed to an engine directly
MaxAppended == 4
\* the minutes over which the directly called stateful engines are followed
CallHorizon == 10
\* highest price fed
MaxPrice == 2
\* minutes of wall-clock time explored by the aggregator
MaxMinutes == 2
MaxSignals == 1
TimeoutHorizon == 45
CooldownHorizon == 11

Pairs == {"EUR/USD_OTC", "GBP/USD_OTC"}
\* the pairs the price feed carries while the aggregator is explored
FeedPairs == {"EUR/USD_OTC"}
PriceValues == 1..MaxPrice

----------------------------------------------------------------------------
(* Small helpers                                                           *)

Max(a, b) == IF a >= b THEN a ELSE b
Min(a, b) == IF a <= b THEN a ELSE b

\* the last n elements of s (all of s when it is shorter)
LastN(s, n) == IF Len(s) <= n THEN s ELSE SubSeq(s, Len(s) - n + 1, Len(s))

\* null / undefined where a candle is expected
NullCandle == [t |-> -1, o |-> 0, h |-> 0, l |-> 0, c |-> 0]

\* { ...a, ...d } : object spread, the fields of d override those of a
Spread(a, d) == [k \in DOMAIN a \cup DOMAIN d |-> IF k \in DOMAIN d THEN d[k] ELSE a[k]]

----------------------------------------------------------------------------
(* Ring buffer: createLocalBuffer (cached getAll) and createCircularBuffer *)

\* const buffer = new Array(capacity); let size = 0; let head = 0; cache empty
NewBuffer(capacity) ==
  [buffer      |-> [i \in 0..(capacity - 1) |-> NullCandle],
   size        |-> 0,
   head        |-> 0,
   cachedResult|-> <<>>,
   hasCached   |-> FALSE,
   cacheValid  |-> FALSE]

BufCapacity(b) == Cardinality(DOMAIN b.buffer)

\* head = (head + 1) % capacity
NextHead(head, capacity) == (head + 1) % capacity

\* add(candle)
BufAdd(b, candle) ==
  [b EXCEPT !.buffer[b.head] = candle,
            !.head = NextHead(b.head, BufCapacity(b)),
            !.size = IF b.size < BufCapacity(b) THEN b.size + 1 ELSE b.size,
            !.cacheValid = FALSE]

\* const lastIndex = (head - 1 + capacity) % capacity
LastIndex(b) == (b.head - 1 + BufCapacity(b)) % BufCapacity(b)

\* updateLast(data)
BufUpdateLastKeepsCache(b, data) ==
  IF b.size = 0 THEN b
  ELSE [b EXCEPT !.buffer[LastIndex(b)] = Spread(b.buffer[LastIndex(b)], data)]
BufUpdateLast(b, data) ==
  IF b.size = 0 THEN b
  ELSE [b EXCEPT !.buffer[LastIndex(b)] = Spread(b.buffer[LastIndex(b)], data),
                 !.cacheValid = FALSE]

\* getLatest()
BufGetLatest(b) == IF b.size = 0 THEN NullCandle ELSE b.buffer[LastIndex(b)]

\* the array getAll() builds from the slots: start = (head - size + capacity) % capacity
RebuildFromSlotZero(b) ==
  [i \in 1..b.size |-> b.buffer[(i - 1) % BufCapacity(b)]]
Rebuild(b) ==
  LET start == (b.head - b.size + BufCapacity(b)) % BufCapacity(b)
  IN  [i \in 1..b.size |-> b.buffer[(start + (i - 1)) % BufCapacity(b)]]

\* createCircularBuffer.getAll(): no cache
GetAllUncached(b) == IF b.size = 0 THEN <<>> ELSE Rebuild(b)

\* createLocalBuffer.getAll(): the value returned
GetAllResult(b) ==
  IF b.size = 0 THEN <<>>
  ELSE IF b.cacheValid /\ b.hasCached THEN b.cachedResult
  ELSE Rebuild(b)

\* createLocalBuffer.getAll(): the buffer object after the call
GetAllState(b) ==
  IF b.size = 0 THEN b
  ELSE IF b.cacheValid /\ b.hasCached THEN b
  ELSE [b EXCEPT !.cachedResult = Rebuild(b), !.hasCached = TRUE, !.cacheValid = TRUE]

----------------------------------------------------------------------------
(* The buffer driven directly: any sequence of add / updateLast / getAll   *)

FlatCandle(t, price) == [t |-> t, o |-> price, h |-> price, l |-> price, c |-> price]

RingAdd(price) ==
  /\ Len(inserted) < MaxAdds
  /\ ring' = BufAdd(ring, FlatCandle(Len(inserted) + 1, price))
  /\ inserted' = Append(inserted, FlatCandle(Len(inserted) + 1, price))

RingUpdateLast(price) ==
  /\ ring' = BufUpdateLast(ring, [c |-> price])
  /\ inserted' = IF Len(inserted) = 0 THEN inserted
                 ELSE [inserted EXCEPT ![Len(inserted)] = Spread(@, [c |-> price])]

RingGetAll ==
  /\ ring' = GetAllState(ring)
  /\ UNCHANGED inserted

----------------------------------------------------------------------------
(* Candle aggregator of the content script: getOrCreateBuffer,             *)
(* updateCandlesForPair and the candle part of tickLoop                    *)

\* warmupCandlesCount / tradeDurationMinutes defaults
DefaultWarmup == 50
DefaultDuration == 5
DefaultInterval == 5

\* what the price feed can hold for a pair: nothing, a number, or a non-number
Absent == [kind |-> "absent", v |-> 0]
FeedValues ==
  {Absent, [kind |-> "str", v |-> 0]} \cup {[kind |-> "num", v |-> x] : x \in 0..MaxPrice}

\* Object with no keys
EmptyMap == [x \in {} |-> 0]
Put(f, k, v) == [x \in DOMAIN f \cup {k} |-> IF x = k THEN v ELSE f[x]]

\* the fields of one pair, as getOrCreateBuffer creates them
NewPair ==
  [buffer |-> NewBuffer(HistoryCapacity), ohlc |-> <<>>, lastPrice |-> 0, warm |-> FALSE]

\* the driver's maps read for one pair, after getOrCreateBuffer(pair)
GetOrCreate(pair) ==
  IF pair \in DOMAIN pairBuffers
  THEN [buffer |-> pairBuffers[pair], ohlc |-> pairOhlcM1[pair],
        lastPrice |-> pairLastPrices[pair], warm |-> pairWarmupComplete[pair]]
  ELSE NewPair

\* Math.floor(timestamp / 60000) * 60000
BucketUnfloored(timestamp) == timestamp
Bucket(timestamp) == (timestamp \div 60000) * 60000

\* buffer.updateLast({ h: Math.max(lastCandle.h, price), l: Math.min(lastCandle.l, price), c: price })
UpdateDataCloseOnly(lastCandle, price) == [h |-> price, l |-> price, c |-> price]
UpdateData(lastCandle, price) ==
  [h |-> Max(lastCandle.h, price), l |-> Min(lastCandle.l, price), c |-> price]

\* the test that decides between add and updateLast
AlwaysNewCandle(lastCandle, minute) == TRUE
IsNewCandle(lastCandle, minute) == lastCandle = NullCandle \/ lastCandle.t # minute

\* updateCandlesForPair(pair, price, timestamp), on the fields d of the pair
UpdateCandlesForPair(d, price, timestamp) ==
  LET minute == Bucket(timestamp)
      lastCandle == BufGetLatest(d.buffer)
  IN  IF IsNewCandle(lastCandle, minute)
      THEN LET b1 == BufAdd(d.buffer, [t |-> minute, o |-> price, h |-> price,
                                       l |-> price, c |-> price])
               o1 == GetAllResult(b1)
               b2 == GetAllState(b1)
               w  == IF ~d.warm /\ Len(o1) >= warmupCandlesCount THEN TRUE ELSE d.warm
           IN  [d EXCEPT !.buffer = GetAllState(b2), !.ohlc = GetAllResult(b2), !.warm = w]
      ELSE LET b1 == BufUpdateLast(d.buffer, UpdateData(lastCandle, price))
           IN  [d EXCEPT !.buffer = GetAllState(b1), !.ohlc = GetAllResult(b1)]

\* typeof price === 'number' && price > 0
Accepted(fv) == fv.kind = "num" /\ fv.v > 0

\* the body of tickLoop's for loop for one accepted entry
TickEntry(pair, price) ==
  LET previousPrice == IF pair \in DOMAIN pairLastPrices THEN pairLastPrices[pair] ELSE 0
      d0 == GetOrCreate(pair)
      lastCandle == BufGetLatest(d0.buffer)
      currentMinute == Bucket(now)
      isNewMinute == lastCandle = NullCandle \/ lastCandle.t # currentMinute
      shouldUpdate == previousPrice # price \/ isNewMinute
      d1 == [d0 EXCEPT !.lastPrice = price]
  IN  IF shouldUpdate THEN UpdateCandlesForPair(d1, price, now) ELSE d1

\* no candle of the sequence sweep, displacement, CHoCH, retest fed yet
AllLibs == [indicators |-> TRUE, smc |-> TRUE]
V12NotCalled == [action |-> "none", confidence |-> -1, rawScore |-> 0]
\* no pass of tickLoop yet
NoTick == [feed |-> EmptyMap, buffers |-> EmptyMap, ohlc |-> EmptyMap, prices |-> EmptyMap]
NotFed == [pair |-> "none", stage |-> 0, dir |-> "null", signals |-> 0, at |-> 0]

\* the state after construction
Init ==
  /\ ring = NewBuffer(Capacity)
  /\ inserted = <<>>
  /\ now = 0
  /\ pairBuffers = EmptyMap
  /\ pairOhlcM1 = EmptyMap
  /\ pairLastPrices = EmptyMap
  /\ pairWarmupComplete = EmptyMap
  /\ warmupCandlesCount = DefaultWarmup
  /\ candleCount = EmptyMap
  /\ latestOpenTime = EmptyMap
  /\ tradeDurationMinutes = DefaultDuration
  /\ signals = <<>>
  /\ signalHistory = <<>>
  /\ mostRecentSignal = 0
  /\ pairLastSignals = EmptyMap
  /\ timers = {}
  /\ totalSignals = 0 /\ winningSignals = 0 /\ losingSignals = 0
  /\ highConfSignals = 0 /\ highConfWins = 0 /\ highConfLosses = 0
  /\ consecutiveLossesCount = 0
  /\ signalIntervalMinutes = DefaultInterval
  /\ lastSignalTriggeredAtMinute = -1
  /\ generationCalls = <<>>
  /\ pairEngineStates = EmptyMap
  /\ emitted = EmptyMap
  /\ stalled = EmptyMap
  /\ justCalled = "none"
  /\ fed = NotFed
  /\ candles = <<>>
  /\ libs = AllLibs
  /\ v12Out = V12NotCalled
  /\ engine = "V12"
  /\ engState = [status |-> "null"]
  /\ engOut = [kind |-> "none"]
  /\ lastTick = NoTick


\* tickLoop(): one pass over Object.entries(prices)
TickLoop(feed) ==
  LET touched == {p \in DOMAIN feed : Accepted(feed[p])}
      after == [p \in touched |-> TickEntry(p, feed[p].v)]
      keys == DOMAIN pairBuffers \cup touched
  IN  /\ pairBuffers' = [p \in keys |-> IF p \in touched THEN after[p].buffer ELSE pairBuffers[p]]
      /\ pairOhlcM1' = [p \in keys |-> IF p \in touched THEN after[p].ohlc ELSE pairOhlcM1[p]]
      /\ pairLastPrices' =
           [p \in keys |-> IF p \in touched THEN after[p].lastPrice ELSE pairLastPrices[p]]
      /\ pairWarmupComplete' =
           [p \in keys |-> IF p \in touched THEN after[p].warm ELSE pairWarmupComplete[p]]
      /\ UNCHANGED <<now, warmupCandlesCount>>

\* the clock between two timer callbacks
ClockSteps == {30000, 60000}
ClockAdvance(d) ==
  /\ now + d <= MaxMinutes * 60000
  /\ now' = now + d
  /\ UNCHANGED <<pairBuffers, pairOhlcM1, pairLastPrices, pairWarmupComplete,
                 warmupCandlesCount>>

\* what JSON.parse can put in dataStream.prices for a pair: besides the values
\* above, a number literal beyond the double range (1e999) parses to Infinity,
\* which is larger than every price; NaN stands for a number every comparison
\* of which is false
Infinity == MaxPrice + 1
NaN == [kind |-> "nan", v |-> 0]
ParsedValues ==
  FeedValues \cup {NaN} \cup {[kind |-> "num", v |-> x] : x \in {0 - Infinity, -1, Infinity}}

\* tickLoop(), with what it read and the driver's maps as they were before it
TickLoopObserved(feed) ==
  /\ TickLoop(feed)
  /\ lastTick' = [feed |-> feed, buffers |-> pairBuffers, ohlc |-> pairOhlcM1,
                  prices |-> pairLastPrices]

----------------------------------------------------------------------------
(* Properties of the ring buffer                                           *)

\* C1: once more than capacity candles were added, getAll() returns exactly
\* capacity candles, the most recently added ones, oldest first (cached and
\* uncached buffer alike).
C1_RingKeepsMostRecent ==
  Len(inserted) > BufCapacity(ring) =>
    /\ Len(GetAllResult(ring)) = BufCapacity(ring)
    /\ GetAllResult(ring) = LastN(inserted, BufCapacity(ring))
    /\ GetAllUncached(ring) = LastN(inserted, BufCapacity(ring))

\* more than capacity candles added, the last one updated, and a snapshot cached
C1_Witness ==
  /\ Len(inserted) > BufCapacity(ring)
  /\ ring.cacheValid
  /\ inserted[Len(inserted)].c # inserted[Len(inserted)].o

----------------------------------------------------------------------------
(* Properties of the aggregator                                            *)

History(p) == pairOhlcM1[p]
\* start of the one-minute bucket holding ts
BucketStart(ts) == ts - (ts % 60000)
Latest(h) == h[Len(h)]
\* the pass pushed a candle for p (the write index moved, or p is new)
Pushed(p) ==
  /\ p \in DOMAIN pairBuffers'
  /\ GetOrCreate(p).buffer.head # pairBuffers'[p].head
OpenTimes(h) == [i \in 1..Len(h) |-> h[i].t]

\* C2: ticks inside one bucket create at most one candle for it: no two
\* candles of a history share an openTime, a tick that finds no candle for
\* its bucket pushes open=high=low=close=price, and a tick that finds one
\* leaves the number of candles alone and updates the latest in place.
C2_BucketsDistinct ==
  \A p \in DOMAIN pairOhlcM1 :
    \A i, j \in 1..Len(History(p)) : i < j => History(p)[i].t # History(p)[j].t
C2_TickStep ==
  \A p \in DOMAIN pairOhlcM1' :
    LET before == BufGetLatest(GetOrCreate(p).buffer)
        hadBucket == before # NullCandle /\ before.t = BucketStart(now)
    IN  /\ Pushed(p) =>
             /\ ~hadBucket
             /\ Latest(History(p)') = FlatCandle(BucketStart(now), pairLastPrices'[p])
        /\ (hadBucket /\ now' = now) =>
             /\ ~Pushed(p)
             /\ Len(History(p)') = Len(History(p))
             /\ Latest(History(p)').t = before.t
             /\ Latest(History(p)').o = before.o
             /\ Latest(History(p)').c = pairLastPrices'[p]
C2_OneCandlePerBucket == []C2_BucketsDistinct /\ [][C2_TickStep]_vars

\* a candle that was pushed and then updated in place by a later tick of its bucket
C2_Witness ==
  \E p \in DOMAIN pairOhlcM1 :
    /\ Len(History(p)) >= 2
    /\ Latest(History(p)).h # Latest(History(p)).l

\* C9: every candle of every history has high >= max(open, close) and
\* low <= min(open, close).
C9_HighLowBracket ==
  \A p \in DOMAIN pairOhlcM1 :
    \A i \in 1..Len(History(p)) :
      /\ History(p)[i].h >= Max(History(p)[i].o, History(p)[i].c)
      /\ History(p)[i].l <= Min(History(p)[i].o, History(p)[i].c)

\* a candle whose price went up and came back down
C9_Witness ==
  \E p \in DOMAIN pairOhlcM1 :
    \E i \in 1..Len(History(p)) :
      /\ History(p)[i].h > History(p)[i].c
      /\ History(p)[i].o = History(p)[i].c

\* C10: the openTimes of a history never decrease along it, and the only way
\* the openTimes change is by a pass pushing floor(now / 60000) * 60000 at
\* the end (dropping the oldest when the buffer is full).
C10_Monotone ==
  \A p \in DOMAIN pairOhlcM1 :
    \A i, j \in 1..Len(History(p)) : i <= j => History(p)[i].t <= History(p)[j].t
C10_OpenTimeStep ==
  \A p \in DOMAIN pairOhlcM1' :
    LET old == IF p \in DOMAIN pairOhlcM1 THEN OpenTimes(History(p)) ELSE <<>>
        new == OpenTimes(History(p)')
    IN  \/ new = old
        \/ /\ Pushed(p)
           /\ new = LastN(Append(old, BucketStart(now)), HistoryCapacity)
C10_OpenTimes == []C10_Monotone /\ [][C10_OpenTimeStep]_vars

\* a history of several buckets, read at an instant inside the latest bucket
C10_Witness ==
  \E p \in DOMAIN pairOhlcM1 :
    /\ Len(History(p)) >= 2
    /\ now % 60000 # 0
    /\ Latest(History(p)).t = BucketStart(now)
    /\ History(p)[1].t < Latest(History(p)).t

----------------------------------------------------------------------------
(* The content script with each candle history reduced to its length and   *)
(* the open time of its latest candle: what the lifecycle manager, the     *)
(* warmup test and the engines' guards read of a history                   *)

\* pairBuffers[pair] = createLocalBuffer(2000)
PairBufferCapacity == 2000

\* getOrCreateBuffer(pair) on the reduced history
CountNewPair == [count |-> 0, latest |-> -1, lastPrice |-> 0, warm |-> FALSE, lastSignal |-> 0]
CountGetOrCreate(pair) ==
  IF pair \in DOMAIN candleCount
  THEN [count |-> candleCount[pair], latest |-> latestOpenTime[pair],
        lastPrice |-> pairLastPrices[pair], warm |-> pairWarmupComplete[pair],
        lastSignal |-> pairLastSignals[pair]]
  ELSE CountNewPair

\* updateCandlesForPair(pair, price, timestamp): buffer.add grows the history
\* up to the capacity, buffer.updateLast keeps its length
CountUpdateCandles(d, price, timestamp) ==
  LET minute == Bucket(timestamp)
      lastCandle == [NullCandle EXCEPT !.t = d.latest]
  IN  IF IsNewCandle(lastCandle, minute)
      THEN LET n == Min(d.count + 1, PairBufferCapacity)
               w == IF ~d.warm /\ n >= warmupCandlesCount THEN TRUE ELSE d.warm
           IN  [d EXCEPT !.count = n, !.latest = minute, !.warm = w]
      ELSE d

\* the body of tickLoop's for loop for one accepted entry
CountTickEntry(pair, price) ==
  LET d0 == CountGetOrCreate(pair)
      previousPrice == d0.lastPrice
      isNewMinute == d0.latest = -1 \/ d0.latest # Bucket(now)
      shouldUpdate == previousPrice # price \/ isNewMinute
      d1 == [d0 EXCEPT !.lastPrice = price]
  IN  IF shouldUpdate THEN CountUpdateCandles(d1, price, now) ELSE d1

\* an engine state that is null
NullState == [status |-> "null"]
IsNullState(pair) ==
  pair \notin DOMAIN pairEngineStates \/ pairEngineStates[pair].status = "null"

\* engine.syncOracle(pair, prevState, price): the instrument's learning state,
\* created on first sight of the instrument
NexusState == [status |-> "NEXUS"]
SyncOracle(pair, price) == NexusState

\* tickLoop(): one pass over Object.entries(prices).  shadowWins: the pairs for
\* which syncOracle appended a WIN to deepSight.virtualHistory in this pass
CountTickLoop(feed, shadowWins) ==
  LET touched == {p \in DOMAIN feed : Accepted(feed[p])}
      after == [p \in touched |-> CountTickEntry(p, feed[p].v)]
      keys == DOMAIN candleCount \cup touched
      recovered == {p \in touched \cap shadowWins : ~IsNullState(p)}
  IN  /\ pairEngineStates' =
           [p \in DOMAIN pairEngineStates \cup touched |->
              IF p \in touched THEN SyncOracle(p, feed[p].v) ELSE pairEngineStates[p]]
      /\ consecutiveLossesCount' = Max(0, consecutiveLossesCount - Cardinality(recovered))
      /\ candleCount' = [p \in keys |-> IF p \in touched THEN after[p].count ELSE candleCount[p]]
      /\ latestOpenTime' =
           [p \in keys |-> IF p \in touched THEN after[p].latest ELSE latestOpenTime[p]]
      /\ pairLastPrices' =
           [p \in keys |-> IF p \in touched THEN after[p].lastPrice ELSE pairLastPrices[p]]
      /\ pairWarmupComplete' =
           [p \in keys |-> IF p \in touched THEN after[p].warm ELSE pairWarmupComplete[p]]
      /\ pairLastSignals' =
           [p \in keys |-> IF p \in touched THEN after[p].lastSignal ELSE pairLastSignals[p]]

\* parseInt(request.x, 10) || dflt, on an input that parsed to n (0 also stands for NaN)
ParseOr(n, dflt) == IF n = 0 THEN dflt ELSE n

\* onMessage: SET_WARMUP and SET_DURATION
ConfigInputs == {0, 1}
SetWarmup(n) == warmupCandlesCount' = ParseOr(n, DefaultWarmup)
SetDuration(n) == tradeDurationMinutes' = ParseOr(n, DefaultDuration)

----------------------------------------------------------------------------
(* Signal lifecycle manager: saveState, generateForcedBestSignal,          *)
(* recordSignal, scheduleResultCheck, finalizeSignal, RESET_HISTORY        *)

HISTORY_LIMIT == 50
MIN_CONFIDENCE_PERCENT == 70

\* the state after construction when localStorage held a history of n signals
\* of an earlier session (identities -1..-n, newest first) and the statistics
\* of k signals, all lost: loadState()
MaxRestoredStreak == 2
RestoredLengths == {0, HISTORY_LIMIT - 1, HISTORY_LIMIT}
InitRestoredWith(n, k, states, warmPairs) ==
  /\ ring = NewBuffer(Capacity)
  /\ inserted = <<>>
  /\ now = 0
  /\ pairBuffers = EmptyMap
  /\ pairOhlcM1 = EmptyMap
  /\ pairLastPrices = [p \in warmPairs |-> 1]
  /\ pairWarmupComplete = [p \in warmPairs |-> TRUE]
  /\ warmupCandlesCount = DefaultWarmup
  /\ candleCount = [p \in warmPairs |-> DefaultWarmup]
  /\ latestOpenTime = [p \in warmPairs |-> 0]
  /\ tradeDurationMinutes = DefaultDuration
  /\ signals = <<>>
  /\ signalHistory = [i \in 1..n |-> -i]
  /\ mostRecentSignal = 0
  /\ pairLastSignals = [p \in warmPairs |-> 0]
  /\ timers = {}
  /\ totalSignals = k /\ winningSignals = 0 /\ losingSignals = k
  /\ highConfSignals = 0 /\ highConfWins = 0 /\ highConfLosses = 0
  /\ consecutiveLossesCount = k
  /\ signalIntervalMinutes = DefaultInterval
  /\ lastSignalTriggeredAtMinute = -1
  /\ generationCalls = <<>>
  /\ pairEngineStates = states
  /\ emitted = EmptyMap
  /\ stalled = EmptyMap
  /\ justCalled = "none"
  /\ fed = NotFed
  /\ candles = <<>>
  /\ libs = AllLibs
  /\ v12Out = V12NotCalled
  /\ engine = "V12"
  /\ engState = [status |-> "null"]
  /\ engOut = [kind |-> "none"]
  /\ lastTick = NoTick
InitRestored(n, k) == InitRestoredWith(n, k, EmptyMap, {})

\* array.slice(0, n)
Take(s, n) == SubSeq(s, 1, Min(n, Len(s)))

\* saveState(): what localStorage.setItem does to it.  "ok": the writes went
\* through, or threw an error other than QuotaExceededError, which the catch
\* block swallows; "pruned": a write threw QuotaExceededError and the retry
\* went through; "throws": the retry inside the catch block threw as well
SaveOutcomes == {"ok", "pruned", "throws"}
SaveStateHistory(h, outcome) ==
  IF outcome = "ok" THEN h ELSE Take(h, HISTORY_LIMIT \div 2)
SaveStateThrows(outcome) == outcome = "throws"

NoSignal == 0
Pending == "null"

\* if (signal.confidence >= MIN_CONFIDENCE_PERCENT) highConfSignals++
CountsAsHighConfAbove(signal) == signal.confidence > MIN_CONFIDENCE_PERCENT
CountsAsHighConf(signal) == signal.confidence >= MIN_CONFIDENCE_PERCENT

\* recordSignal(pair, signal); publishOk: localStorage.setItem in
\* publishToAutoTrader returned.  An exception out of saveState or
\* publishToAutoTrader ends recordSignal before scheduleResultCheck
RecordSignal(pair, signal, save, publishOk) ==
  LET id == Len(signals) + 1
      scheduled == ~SaveStateThrows(save) /\ publishOk
  IN  /\ signals' = Append(signals, signal)
      /\ pairLastSignals' = Put(pairLastSignals, pair, id)
      /\ mostRecentSignal' = id
      /\ totalSignals' = totalSignals + 1
      /\ highConfSignals' =
           IF CountsAsHighConf(signal) THEN highConfSignals + 1 ELSE highConfSignals
      /\ signalHistory' = SaveStateHistory(<<id>> \o signalHistory, save)
      /\ timers' =
           IF scheduled
           THEN timers \cup {[sig |-> id, fireAt |-> now + signal.duration * 60 * 1000]}
           ELSE timers
      /\ UNCHANGED <<winningSignals, losingSignals, highConfWins, highConfLosses,
                     consecutiveLossesCount>>

\* pairLastPrices[pair], 0 for null and undefined
LastPriceOf(pair) == IF pair \in DOMAIN pairLastPrices THEN pairLastPrices[pair] ELSE 0

\* if (signal.result != null || lastPrice == null || signal.entryPrice == null) return;
FinalizeSkipsWithoutResultTest(signal, lastPrice) == lastPrice = 0 \/ signal.entryPrice = 0
FinalizeSkips(signal, lastPrice) ==
  signal.result # Pending \/ lastPrice = 0 \/ signal.entryPrice = 0

\* (action === 'BUY' && lastPrice > entryPrice) || (action === 'SELL' && lastPrice < entryPrice)
IsWinOrUnchanged(signal, lastPrice) ==
  \/ signal.action = "BUY" /\ lastPrice >= signal.entryPrice
  \/ signal.action = "SELL" /\ lastPrice <= signal.entryPrice
IsWin(signal, lastPrice) ==
  \/ signal.action = "BUY" /\ lastPrice > signal.entryPrice
  \/ signal.action = "SELL" /\ lastPrice < signal.entryPrice

\* if (isWin) consecutiveLossesCount = 0; else consecutiveLossesCount++;
StreakAfterKeptOnWin(isWin, streak) == IF isWin THEN streak ELSE streak + 1
StreakAfter(isWin, streak) == IF isWin THEN 0 ELSE streak + 1

\* finalizeSignal(pair, signal), signal being the object of identity id
FinalizeSignal(pair, id, save) ==
  LET signal == signals[id]
      lastPrice == LastPriceOf(pair)
      isWin == IsWin(signal, lastPrice)
      highConf == signal.confidence >= MIN_CONFIDENCE_PERCENT
  IN  IF FinalizeSkips(signal, lastPrice)
      THEN UNCHANGED <<signals, signalHistory, statVars>>
      ELSE /\ signals' = [signals EXCEPT ![id].result = IF isWin THEN "WIN" ELSE "LOSS",
                                         ![id].exitPrice = lastPrice]
           /\ winningSignals' = IF isWin THEN winningSignals + 1 ELSE winningSignals
           /\ losingSignals' = IF isWin THEN losingSignals ELSE losingSignals + 1
           /\ consecutiveLossesCount' = StreakAfter(isWin, consecutiveLossesCount)
           /\ highConfWins' = IF highConf /\ isWin THEN highConfWins + 1 ELSE highConfWins
           /\ highConfLosses' = IF highConf /\ ~isWin THEN highConfLosses + 1 ELSE highConfLosses
           /\ signalHistory' = SaveStateHistory(signalHistory, save)
           /\ UNCHANGED <<totalSignals, highConfSignals>>

\* a signal object as generateForcedBestSignal builds it (cleanSignal)
NewSignal(pair, action, confidence, duration, entryPrice) ==
  [pair |-> pair, action |-> action, confidence |-> confidence, duration |-> duration,
   timestamp |-> now, entryPrice |-> entryPrice, result |-> Pending, exitPrice |-> 0]

Actions == {"BUY", "SELL"}
SpiValues == {65, 120}
ConfidenceValues == {69, 70, 100}

\* engine.processMarketSnapshot(allPairsData, tradeDurationMinutes, globalStrength):
\* null, or the best of the instruments it was given, with a direction, a
\* score and the expiry it was asked for
NoResult == [pair |-> "none", action |-> "none", spi |-> 0, tradeDuration |-> 0]
ProcessMarketSnapshot(allPairsData, expiryMinutes) ==
  {NoResult} \cup
  {[pair |-> p, action |-> a, spi |-> x, tradeDuration |-> expiryMinutes] :
     p \in allPairsData, a \in Actions, x \in SpiValues}

\* Math.min(100, Math.max(0, spi)), capped at 70 during a losing streak
FinalConfidence(spi) ==
  LET clamped == Min(100, Max(0, spi))
  IN  IF consecutiveLossesCount >= 3 THEN Min(70, clamped) ELSE clamped

\* generateForcedBestSignal(); payoutOk: the pairs whose payout read from the
\* page is at least MIN_PAYOUT_PERCENT
GenerateForcedBestSignal(payoutOk, result, save, publishOk) ==
  LET allPairsData == {p \in DOMAIN pairWarmupComplete : pairWarmupComplete[p] /\ p \in payoutOk}
  IN  /\ result \in ProcessMarketSnapshot(allPairsData, tradeDurationMinutes)
      /\ result.pair # "none" => Len(signals) < MaxSignals
      /\ IF result.pair # "none"
         THEN RecordSignal(result.pair,
                NewSignal(result.pair, result.action, FinalConfidence(result.spi),
                          result.tradeDuration, pairLastPrices[result.pair]),
                save, publishOk)
         ELSE UNCHANGED lifeVars

\* the callback scheduleResultCheck registered with setTimeout
TimerFires(tm, save) ==
  /\ tm \in timers
  /\ now >= tm.fireAt
  /\ timers' = timers \ {tm}
  /\ FinalizeSignal(signals[tm.sig].pair, tm.sig, save)
  /\ UNCHANGED <<mostRecentSignal, pairLastSignals>>

\* onMessage: RESET_HISTORY (pending timeouts are not cleared)
ResetHistory(save) ==
  /\ totalSignals' = 0 /\ winningSignals' = 0 /\ losingSignals' = 0
  /\ highConfSignals' = 0 /\ highConfWins' = 0 /\ highConfLosses' = 0
  /\ consecutiveLossesCount' = 0
  /\ signalHistory' = SaveStateHistory(<<>>, save)
  /\ mostRecentSignal' = NoSignal
  /\ pairLastSignals' = [p \in DOMAIN pairLastSignals |-> NoSignal]
  /\ pairEngineStates' =
       [p \in DOMAIN pairEngineStates \cup DOMAIN pairLastSignals |->
          IF p \in DOMAIN pairLastSignals THEN NullState ELSE pairEngineStates[p]]
  /\ UNCHANGED <<signals, timers>>

\* onMessage: SET_INTERVAL
IntervalInputs == {0, 1, 2}
SetInterval(n) == signalIntervalMinutes' = ParseOr(n, DefaultInterval)

\* new Date(ts).getMinutes() and .getSeconds()
GetMinutes(ts) == (ts \div 60000) % 60
GetSeconds(ts) == (ts \div 1000) % 60

\* sec === 0 && (min % signalIntervalMinutes === 0) && (min !== lastSignalTriggeredAtMinute)
TriggersWithoutMarker(min, sec) == sec = 0 /\ min % signalIntervalMinutes = 0
Triggers(min, sec) ==
  sec = 0 /\ min % signalIntervalMinutes = 0 /\ min # lastSignalTriggeredAtMinute

\* signalLoop(), one run of the 1-second timer
SignalLoop(payoutOk, result, save, publishOk) ==
  LET min == GetMinutes(now)
      sec == GetSeconds(now)
  IN  IF Triggers(min, sec)
      THEN /\ lastSignalTriggeredAtMinute' = min
           /\ generationCalls' = Append(generationCalls, now)
           /\ GenerateForcedBestSignal(payoutOk, result, save, publishOk)
           /\ UNCHANGED signalIntervalMinutes
      ELSE UNCHANGED <<loopVars, lifeVars>>

\* the clock between two runs of the signal loop
LoopClockSteps == {500, 59500}

\* saveState() called directly; how the call ended is kept for the caller
SaveStateEnded(outcome) ==
  IF SaveStateThrows(outcome) THEN "saveState threw"
  ELSE IF outcome = "pruned" THEN "saveState pruned and returned"
  ELSE "saveState returned"
CallSaveState(save) ==
  /\ signalHistory' = SaveStateHistory(signalHistory, save)
  /\ justCalled' = SaveStateEnded(save)
  /\ UNCHANGED <<signals, mostRecentSignal, pairLastSignals, timers, statVars,
                 emitted, stalled, fed>>

\* recordSignal and finalizeSignal called directly, on any signal object
CallRecordSignal(pair, action, confidence, entryPrice, save, publishOk) ==
  /\ Len(signals) < MaxSignals
  /\ RecordSignal(pair, NewSignal(pair, action, confidence, tradeDurationMinutes, entryPrice),
                  save, publishOk)
CallFinalizeSignal(id, save) ==
  /\ id \in 1..Len(signals)
  /\ FinalizeSignal(signals[id].pair, id, save)
  /\ UNCHANGED <<mostRecentSignal, pairLastSignals, timers>>

----------------------------------------------------------------------------
(* V14Engine.generateSignal.  What the indicator library reports for the   *)
(* candle window of a call is an input of the call (an observation)        *)

BQI_THRESHOLD == 45
STATE_TIMEOUT_CANDLES == 40
COOLDOWN_MS == 10 * 60 * 1000
MinCandles == 35

\* resetState(pair) whatever timestamp is passed: the cooldown is not started
ResetStateWithoutTimestamp(existingTimestamp) ==
  [status |-> "IDLE", direction |-> "null", lastUpdateCandle |-> 0,
   lastSignalTimestamp |-> 0, lastBQI |-> 0, hasPoi |-> FALSE]
\* resetState(pair, existingTimestamp)
ResetState(existingTimestamp) ==
  [status |-> "IDLE", direction |-> "null", lastUpdateCandle |-> 0,
   lastSignalTimestamp |-> existingTimestamp, lastBQI |-> 0, hasPoi |-> FALSE]

NoEngineSignal == [action |-> "none", reason |-> "none"]

\* the observation of a call: the results of checkVelocityStrike, checkGapAndGo
\* and checkSniperRejection, what the latest candle adds to the window (kind,
\* dir), the result of checkHybridSetup, velocityDelta.aligned and the BQI of
\* lastCHoCH
Kinds == {"sweep", "displacement", "choch", "retest"}
QuietObs == [vStrike |-> "none", gGo |-> "none", sniper |-> "none", kind |-> "none",
             dir |-> "BUY", hybrid |-> FALSE, aligned |-> "NONE", bqi |-> BQI_THRESHOLD]

\* sweeps.bullishSweeps.length > 0, sweeps.bearishSweeps.length > 0
BullishSweep(obs) == obs.kind = "sweep" /\ obs.dir = "BUY"
BearishSweep(obs) == obs.kind = "sweep" /\ obs.dir = "SELL"
\* (lastCandle.h - lastCandle.l) > atr.current * 1.2, with the velocity towards direction
Displaces(obs, direction) == obs.kind = "displacement" /\ obs.dir = direction
\* lastCHoCH && lastCHoCH.bqi >= BQI_THRESHOLD && its type matches the direction
QualifyingCHoCH(obs, direction) ==
  obs.kind = "choch" /\ obs.bqi >= BQI_THRESHOLD /\ obs.dir = direction
\* velocityDelta.aligned matches the direction
Aligned(obs, direction) ==
  \/ direction = "BUY" /\ obs.aligned = "BULLISH"
  \/ direction = "SELL" /\ obs.aligned = "BEARISH"
\* the latest candle reaches an unmitigated order block or imbalance of setupData.poi
RetestsNever(obs, direction) == FALSE
Retests(obs, direction) == obs.kind = "retest" /\ obs.dir = direction

\* Path 1, 2, 3: the first fast path that returns a signal
FastPath(obs) ==
  IF obs.vStrike # "none" THEN [action |-> obs.vStrike, reason |-> "Velocity Strike"]
  ELSE IF obs.gGo # "none" THEN [action |-> obs.gGo, reason |-> "Gap & Go"]
  ELSE IF obs.sniper # "none" THEN [action |-> obs.sniper, reason |-> "Sniper"]
  ELSE NoEngineSignal

\* the cooldown test
InCooldownNever(pairState, ts) == FALSE
InCooldown(pairState, ts) ==
  pairState.lastSignalTimestamp # 0 /\ (ts - pairState.lastSignalTimestamp) < COOLDOWN_MS

\* the switch over pairState.status
StateMachine(ps, obs, currentTickIndex, ts) ==
  CASE ps.status = "IDLE" ->
         IF BullishSweep(obs)
         THEN [signal |-> NoEngineSignal,
               updatedState |-> [ps EXCEPT !.status = "LIQUIDITY_SWEPT", !.direction = "BUY",
                                           !.lastUpdateCandle = currentTickIndex]]
         ELSE IF BearishSweep(obs)
         THEN [signal |-> NoEngineSignal,
               updatedState |-> [ps EXCEPT !.status = "LIQUIDITY_SWEPT", !.direction = "SELL",
                                           !.lastUpdateCandle = currentTickIndex]]
         ELSE [signal |-> NoEngineSignal, updatedState |-> ps]
    [] ps.status = "LIQUIDITY_SWEPT" ->
         IF obs.hybrid
         THEN [signal |-> [action |-> ps.direction, reason |-> "Hybrid Setup"],
               updatedState |-> ResetState(ts)]
         ELSE IF Displaces(obs, ps.direction)
         THEN [signal |-> NoEngineSignal,
               updatedState |-> [ps EXCEPT !.status = "DISPLACEMENT",
                                           !.lastUpdateCandle = currentTickIndex]]
         ELSE [signal |-> NoEngineSignal, updatedState |-> ps]
    [] ps.status = "DISPLACEMENT" ->
         IF QualifyingCHoCH(obs, ps.direction)
         THEN IF Aligned(obs, ps.direction)
              THEN [signal |-> [action |-> ps.direction, reason |-> "FastTrack Entry"],
                    updatedState |-> ResetState(ts)]
              ELSE [signal |-> NoEngineSignal,
                    updatedState |-> [ps EXCEPT !.status = "CHOCH",
                                                !.lastUpdateCandle = currentTickIndex,
                                                !.lastBQI = obs.bqi, !.hasPoi = TRUE]]
         ELSE [signal |-> NoEngineSignal, updatedState |-> ps]
    [] ps.status = "CHOCH" ->
         IF Retests(obs, ps.direction)
         THEN [signal |-> [action |-> ps.direction, reason |-> "Sequence Complete"],
               updatedState |-> ResetState(ts)]
         ELSE [signal |-> NoEngineSignal, updatedState |-> ps]
    [] OTHER -> [signal |-> NoEngineSignal, updatedState |-> ps]

\* generateSignal(candles, pair, pairState) at Date.now() = ts, candles.length = len
V14GenerateSignalResetsState(len, pairState, obs, ts) ==
  [signal |-> NoEngineSignal,
   updatedState |-> ResetState(IF pairState.status = "null" THEN 0
                               ELSE pairState.lastSignalTimestamp)]
V14GenerateSignal(len, pairState, obs, ts) ==
  IF len < MinCandles THEN [signal |-> NoEngineSignal, updatedState |-> pairState]
  ELSE
    LET s0 == IF pairState.status = "null" THEN ResetState(0) ELSE pairState
    IN  IF InCooldown(s0, ts) THEN [signal |-> NoEngineSignal, updatedState |-> s0]
        ELSE
          LET currentTickIndex == len
              s1 == IF /\ s0.status # "IDLE"
                       /\ (currentTickIndex - s0.lastUpdateCandle) > STATE_TIMEOUT_CANDLES
                    THEN ResetState(s0.lastSignalTimestamp) ELSE s0
              fast == FastPath(obs)
          IN  IF fast # NoEngineSignal
              THEN [signal |-> fast, updatedState |-> ResetState(ts)]
              ELSE StateMachine(s1, obs, currentTickIndex, ts)

----------------------------------------------------------------------------
(* The v15 content script around the engine: tickLoop,                     *)
(* generateSignalCandidateForPair, RESET_HISTORY                           *)

\* pairEngineStates[pair], null and undefined alike
EngineStateOf(pair) ==
  IF pair \in DOMAIN pairEngineStates THEN pairEngineStates[pair] ELSE NullState

NeverEmitted == [t |-> -1, reset |-> FALSE]
LastEmission(pair) == IF pair \in DOMAIN emitted THEN emitted[pair] ELSE NeverEmitted
StalledOf(pair) == IF pair \in DOMAIN stalled THEN stalled[pair] ELSE 0
Idle(status) == status \in {"null", "IDLE"}

\* tickLoop() of the v15 script: one pass over Object.entries(prices)
V15TickLoop(feed) ==
  LET touched == {p \in DOMAIN feed : Accepted(feed[p])}
      after == [p \in touched |-> CountTickEntry(p, feed[p].v)]
      keys == DOMAIN candleCount \cup touched
      added == {p \in touched : after[p].latest # CountGetOrCreate(p).latest}
  IN  /\ candleCount' = [p \in keys |-> IF p \in touched THEN after[p].count ELSE candleCount[p]]
      /\ latestOpenTime' =
           [p \in keys |-> IF p \in touched THEN after[p].latest ELSE latestOpenTime[p]]
      /\ pairLastPrices' =
           [p \in keys |-> IF p \in touched THEN after[p].lastPrice ELSE pairLastPrices[p]]
      /\ pairWarmupComplete' =
           [p \in keys |-> IF p \in touched THEN after[p].warm ELSE pairWarmupComplete[p]]
      /\ pairLastSignals' =
           [p \in keys |-> IF p \in touched THEN after[p].lastSignal ELSE pairLastSignals[p]]
      /\ stalled' = [p \in DOMAIN stalled |->
                       IF p \in added /\ ~Idle(EngineStateOf(p).status)
                       THEN stalled[p] + 1 ELSE stalled[p]]
      /\ justCalled' = "none"
      /\ UNCHANGED <<emitted, fed>>

\* what the engine returns to generateSignalCandidateForPair(pair); the engine
\* is not called before the warmup is complete
NotCalled == [signal |-> NoEngineSignal, updatedState |-> NullState]
EngineOutput(pair, obs) ==
  IF \/ pair \notin DOMAIN pairWarmupComplete
     \/ ~pairWarmupComplete[pair]
     \/ candleCount[pair] < warmupCandlesCount
  THEN NotCalled
  ELSE V14GenerateSignal(candleCount[pair], EngineStateOf(pair), obs, now)

\* the sweep, displacement, qualifying CHoCH, retest sequence: what the call
\* with observation obs makes of the progress so far
ExpectedKind(stage) ==
  CASE stage = 0 -> "sweep" [] stage = 1 -> "displacement" [] stage = 2 -> "choch"
    [] OTHER -> "retest"
FedAfter(pair, obs, out) ==
  LET before == EngineStateOf(pair)
      sig == IF out.signal # NoEngineSignal THEN 1 ELSE 0
      fresh == /\ before.status \in {"null", "IDLE"}
               /\ before.status = "IDLE" =>
                    \/ before.lastSignalTimestamp = 0
                    \/ now - before.lastSignalTimestamp >= 10 * 60 * 1000
               /\ candleCount[pair] >= 35
      continues == /\ fed.stage \in 1..3
                   /\ fed.pair = pair
                   /\ obs.kind = ExpectedKind(fed.stage)
                   /\ obs.dir = fed.dir
                   /\ fed.stage = 2 => obs.bqi >= 45
                   /\ latestOpenTime[pair] = fed.at + 60000
  IN  IF out = NotCalled THEN NotFed
      ELSE IF continues
      THEN [pair |-> pair, stage |-> fed.stage + 1, dir |-> fed.dir,
            signals |-> fed.signals + sig, at |-> latestOpenTime[pair]]
      ELSE IF fresh /\ obs.kind = "sweep"
      THEN [pair |-> pair, stage |-> 1, dir |-> obs.dir, signals |-> sig,
            at |-> latestOpenTime[pair]]
      ELSE NotFed

\* generateSignalCandidateForPair(pair): the engine call and "Persist state"
GenerateSignalCandidateForPair(pair, obs) ==
  LET out == EngineOutput(pair, obs)
      before == EngineStateOf(pair)
  IN  /\ pairEngineStates' =
           IF out.updatedState.status # "null"
           THEN Put(pairEngineStates, pair, out.updatedState) ELSE pairEngineStates
      /\ emitted' =
           IF out.signal # NoEngineSignal
           THEN Put(emitted, pair, [t |-> now, reset |-> FALSE])
           ELSE emitted
      /\ stalled' =
           IF \/ Idle(out.updatedState.status)
              \/ out.updatedState.status # before.status
              \/ out.updatedState.lastUpdateCandle # before.lastUpdateCandle
           THEN Put(stalled, pair, 0) ELSE stalled
      /\ justCalled' = pair
      /\ fed' = FedAfter(pair, obs, out)

\* onMessage: RESET_HISTORY of the v15 script
V15ResetHistory(save) ==
  /\ totalSignals' = 0 /\ winningSignals' = 0 /\ losingSignals' = 0
  /\ highConfSignals' = 0 /\ highConfWins' = 0 /\ highConfLosses' = 0
  /\ signalHistory' = SaveStateHistory(<<>>, save)
  /\ mostRecentSignal' = NoSignal
  /\ pairLastSignals' = [p \in DOMAIN pairLastSignals |-> NoSignal]
  /\ pairEngineStates' =
       [p \in DOMAIN pairEngineStates \cup DOMAIN pairLastSignals |->
          IF p \in DOMAIN pairLastSignals THEN NullState ELSE pairEngineStates[p]]
  /\ emitted' =
       [p \in DOMAIN emitted |->
          IF p \in DOMAIN pairLastSignals THEN [emitted[p] EXCEPT !.reset = TRUE]
          ELSE emitted[p]]
  /\ fed' = NotFed
  /\ justCalled' = "none"
  /\ stalled' = [p \in DOMAIN stalled |-> IF p \in DOMAIN pairLastSignals THEN 0 ELSE stalled[p]]
  /\ UNCHANGED <<signals, timers, consecutiveLossesCount>>

\* the observations a call can be given: only the fields the engine reads in
\* the state it is in vary
FastObs ==
  {QuietObs, [QuietObs EXCEPT !.vStrike = "BUY"],
   [QuietObs EXCEPT !.gGo = "BUY", !.sniper = "SELL"], [QuietObs EXCEPT !.sniper = "SELL"]}
KindObs(base, kinds) ==
  base \cup {[o EXCEPT !.kind = k, !.dir = d] : o \in base, k \in kinds, d \in Actions}
Observations(status) ==
  LET withKind == KindObs(FastObs, Kinds)
  IN  CASE status = "LIQUIDITY_SWEPT" ->
             {[o EXCEPT !.hybrid = h] : o \in withKind, h \in BOOLEAN}
        [] status = "DISPLACEMENT" ->
             {[o EXCEPT !.aligned = a, !.bqi = b] :
                o \in withKind, a \in {"NONE", "BULLISH", "BEARISH"},
                b \in {BQI_THRESHOLD - 1, BQI_THRESHOLD}}
        [] OTHER -> withKind
\* observations from which no call returns a signal
QuietObservations ==
  {[o EXCEPT !.bqi = b] :
     o \in KindObs({QuietObs}, Kinds \ {"retest"}), b \in {BQI_THRESHOLD - 1, BQI_THRESHOLD}}

\* a live feed: every pass of the tick loop finds a price for the pair
EngineFeed == [p \in FeedPairs |-> [kind |-> "num", v |-> 1]]

\* the clock of the engine specifications: Date.now() is positive, and a
\* minute ends after the tick loop has seen it
EngineEpoch == 100 * 60000
EngineClock(horizon) ==
  /\ now + 60000 <= EngineEpoch + horizon * 60000
  /\ \A p \in FeedPairs : latestOpenTime[p] = Bucket(now)
  /\ now' = now + 60000
  /\ justCalled' = "none"
  /\ UNCHANGED <<pairBuffers, pairOhlcM1, pairLastPrices, pairWarmupComplete,
                 warmupCandlesCount, emitted, stalled, fed>>

\* the script at EngineEpoch, with a history of n candles for each pair of the
\* feed and the warmup set to 1 candle
StartLengths == {MinCandles - 1, PairBufferCapacity - 1}
InitEngine(n) ==
  /\ ring = NewBuffer(Capacity)
  /\ inserted = <<>>
  /\ now = EngineEpoch
  /\ pairBuffers = EmptyMap
  /\ pairOhlcM1 = EmptyMap
  /\ pairLastPrices = [p \in FeedPairs |-> 1]
  /\ pairWarmupComplete = [p \in FeedPairs |-> TRUE]
  /\ warmupCandlesCount = ParseOr(1, DefaultWarmup)
  /\ candleCount = [p \in FeedPairs |-> n]
  /\ latestOpenTime = [p \in FeedPairs |-> EngineEpoch - 60000]
  /\ tradeDurationMinutes = DefaultDuration
  /\ signals = <<>>
  /\ signalHistory = <<>>
  /\ mostRecentSignal = 0
  /\ pairLastSignals = [p \in FeedPairs |-> NoSignal]
  /\ timers = {}
  /\ totalSignals = 0 /\ winningSignals = 0 /\ losingSignals = 0
  /\ highConfSignals = 0 /\ highConfWins = 0 /\ highConfLosses = 0
  /\ consecutiveLossesCount = 0
  /\ signalIntervalMinutes = DefaultInterval
  /\ lastSignalTriggeredAtMinute = -1
  /\ generationCalls = <<>>
  /\ pairEngineStates = EmptyMap
  /\ emitted = EmptyMap
  /\ stalled = EmptyMap
  /\ justCalled = "none"
  /\ fed = NotFed
  /\ candles = <<>>
  /\ libs = AllLibs
  /\ v12Out = V12NotCalled
  /\ engine = "V12"
  /\ engState = [status |-> "null"]
  /\ engOut = [kind |-> "none"]
  /\ lastTick = NoTick

----------------------------------------------------------------------------
(* Properties of the signal lifecycle                                      *)

Settled(id) == signals[id].result \in {"WIN", "LOSS"}

\* C7: finalize is idempotent.  A call of finalizeSignal on a signal whose
\* result is already WIN or LOSS, or whose entry price or whose pair's current
\* price is unavailable, changes neither the signal nor any counter; so the
\* wins and losses together count every settled signal exactly once.
C7_CountedOnce ==
  winningSignals + losingSignals = Cardinality({id \in 1..Len(signals) : Settled(id)})
C7_NoOpStep ==
  \A id \in 1..Len(signals), save \in SaveOutcomes :
    ( /\ CallFinalizeSignal(id, save)
      /\ \/ Settled(id)
         \/ LastPriceOf(signals[id].pair) = 0
         \/ signals[id].entryPrice = 0 )
    => UNCHANGED lifeVars
C7_FinalizeIdempotent == []C7_CountedOnce /\ [][C7_NoOpStep]_vars

\* a settled signal, on which finalizeSignal can be called again
C7_Witness ==
  \E id \in 1..Len(signals) :
    /\ Settled(id)
    /\ signals[id].exitPrice = LastPriceOf(signals[id].pair)
    /\ winningSignals + losingSignals = 1

\* C8: every recorded signal that has no result yet has its finalize
\* scheduled at its entry time plus its expiry in minutes.
C8_FinalizeScheduled ==
  \A id \in 1..Len(signals) :
    signals[id].result = Pending =>
      \E tm \in timers :
        /\ tm.sig = id
        /\ tm.fireAt = signals[id].timestamp + signals[id].duration * 60000

----------------------------------------------------------------------------
(* Properties of the signal loop                                           *)

AbsoluteMinute(ts) == ts \div 60000

\* C6: signal generation is invoked at most once in any wall-clock minute,
\* hence at most once per interval boundary, however often the signal loop
\* runs during that minute.
C6_OncePerBoundary ==
  \A i, j \in 1..Len(generationCalls) :
    i # j => AbsoluteMinute(generationCalls[i]) # AbsoluteMinute(generationCalls[j])

\* two boundaries have triggered and the loop runs again within second 0 of
\* the second one
C6_Witness ==
  /\ Len(generationCalls) >= 2
  /\ now = generationCalls[Len(generationCalls)] + 500
  /\ GetSeconds(now) = 0
  /\ GetMinutes(now) % signalIntervalMinutes = 0

----------------------------------------------------------------------------
(* Properties of the state-machine engine                                  *)

\* C3: once more than 40 candles were added since the engine's last transition
\* into a non-IDLE status, a call of the engine that makes no further
\* transition leaves the state IDLE with direction null.
C3_ForcedReset ==
  \A p \in FeedPairs :
    (justCalled = p /\ StalledOf(p) > 40)
    => /\ EngineStateOf(p).status = "IDLE"
       /\ EngineStateOf(p).direction = "null"

\* C4: from a fresh IDLE state, four calls on four consecutive candles that
\* show a sweep, a displacement, a qualifying CHoCH and a retest, all in one
\* direction, return exactly one signal between them and leave the state IDLE
\* with direction null, whatever else the four windows show.
C4_SequenceYieldsOneSignal ==
  fed.stage = 4 =>
    /\ fed.signals = 1
    /\ EngineStateOf(fed.pair).status = "IDLE"
    /\ EngineStateOf(fed.pair).direction = "null"

\* the sequence is complete and its signal came with the retest
C4_Witness ==
  /\ fed.stage = 4
  /\ fed.signals = 1
  /\ LastEmission(fed.pair).t >= fed.at
  /\ EngineStateOf(fed.pair).lastSignalTimestamp = LastEmission(fed.pair).t

\* a step in which the engine returns a signal for p
EmissionStep(p) ==
  /\ p \in DOMAIN emitted'
  /\ emitted'[p] # LastEmission(p)
  /\ ~emitted'[p].reset

\* C5 as stated: after a signal at t the engine returns no signal for the
\* instrument before t + 10 minutes, whatever happens in between.
C5_CooldownStep ==
  \A p \in FeedPairs :
    (EmissionStep(p) /\ LastEmission(p).t >= 0) => now' - LastEmission(p).t >= 600000
C5_CooldownUnlessResetStep ==
  \A p \in FeedPairs :
    (EmissionStep(p) /\ LastEmission(p).t >= 0 /\ ~LastEmission(p).reset)
    => now' - LastEmission(p).t >= 600000
----------------------------------------------------------------------------
(* SmartMoneyIndicators: the detectors of smart-money-indicators.js on a   *)
(* candle array.  A candle is [o, h, l, c] with prices in points (one      *)
(* point = 0.00001, one pip = 10 points); the candle's time t is its       *)
(* position in the array, so findIndex(c => c.t === z.time) is the         *)
(* position itself.  Comparisons of quotients are written cross-multiplied *)

Abs(x) == IF x < 0 THEN -x ELSE x
SetMax(S) == CHOOSE x \in S : \A y \in S : y <= x
SetMin(S) == CHOOSE x \in S : \A y \in S : x <= y
\* the k last elements of an index list kept as a set (slice(-k))
LastK(S, k) == {i \in S : Cardinality({j \in S : j > i}) < k}
\* candles.slice(-n)
SliceLast(cs, n) == SubSeq(cs, Max(1, Len(cs) - n + 1), Len(cs))

PIP == 10
SWING_LOOKBACK == 3
LIQUIDITY_LOOKBACK == 40
BREAKER_LOOKBACK == 10
INDUCEMENT_LOOKBACK == 5
INDUCEMENT_SWING_LOOKBACK == 2

\* findSwingPoints(candles, lookback): the positions of the swing highs / lows
SwingHighs(cs, lookback) ==
  IF Len(cs) < lookback * 2 + 1 THEN {}
  ELSE {i \in (lookback + 1)..(Len(cs) - lookback) :
          \A j \in 1..lookback : cs[i].h > cs[i - j].h /\ cs[i].h > cs[i + j].h}
SwingLowsOrEqual(cs, lookback) ==
  IF Len(cs) < lookback * 2 + 1 THEN {}
  ELSE {i \in (lookback + 1)..(Len(cs) - lookback) :
          \A j \in 1..lookback : cs[i].l <= cs[i - j].l /\ cs[i].l <= cs[i + j].l}
SwingLows(cs, lookback) ==
  IF Len(cs) < lookback * 2 + 1 THEN {}
  ELSE {i \in (lookback + 1)..(Len(cs) - lookback) :
          \A j \in 1..lookback : cs[i].l < cs[i - j].l /\ cs[i].l < cs[i + j].l}

\* detectMarketStructure(candles); swingHighs and swingLows are absent from the
\* early return (empty here, which getDynamicTradingRange treats the same)
DetectMarketStructure(cs) ==
  LET sh == SwingHighs(cs, SWING_LOOKBACK)
      sl == SwingLows(cs, SWING_LOOKBACK)
  IN  IF Cardinality(sh) < 2 \/ Cardinality(sl) < 2
      THEN [trend |-> "RANGING", structure |-> "NEUTRAL", lastBOS |-> "null",
            lastCHoCH |-> "null", swingHighs |-> {}, swingLows |-> {}]
      ELSE
        LET rh == LastK(sh, 3)
            rl == LastK(sl, 3)
            highsRising == cs[SetMax(rh)].h > cs[SetMin(rh)].h
            lowsRising == cs[SetMax(rl)].l > cs[SetMin(rl)].l
            highsFalling == cs[SetMax(rh)].h < cs[SetMin(rh)].h
            lowsFalling == cs[SetMax(rl)].l < cs[SetMin(rl)].l
            trend == IF highsRising /\ lowsRising THEN "BULLISH"
                     ELSE IF highsFalling /\ lowsFalling THEN "BEARISH" ELSE "RANGING"
            last == cs[Len(cs)]
            lastSwingHigh == cs[SetMax(sh)].h
            lastSwingLow == cs[SetMax(sl)].l
        IN  [trend |-> trend,
             structure |-> IF trend = "BULLISH" THEN "HH_HL"
                           ELSE IF trend = "BEARISH" THEN "LH_LL" ELSE "NEUTRAL",
             lastBOS |-> IF trend = "BULLISH" /\ last.c > lastSwingHigh THEN "BULLISH_BOS"
                         ELSE IF trend = "BEARISH" /\ last.c < lastSwingLow THEN "BEARISH_BOS"
                         ELSE "null",
             lastCHoCH |-> IF trend = "BULLISH" /\ last.c < lastSwingLow THEN "BEARISH_CHoCH"
                           ELSE IF trend = "BEARISH" /\ last.c > lastSwingHigh
                                THEN "BULLISH_CHoCH" ELSE "null",
             swingHighs |-> sh, swingLows |-> sl]

\* detectEqualLevels(candles): is eqHighs / eqLows non-empty; the tolerance is
\* EQUAL_LEVEL_TOLERANCE * pip = 0.0002 of the average price
EqualPair(a, b) == Abs(a - b) * 10000 < a + b
EqHighs(cs) ==
  LET recent == {i \in SwingHighs(cs, SWING_LOOKBACK) : i - 1 >= Len(cs) - LIQUIDITY_LOOKBACK}
  IN  \E i, j \in recent : i < j /\ EqualPair(cs[i].h, cs[j].h)
EqLows(cs) ==
  LET recent == {i \in SwingLows(cs, SWING_LOOKBACK) : i - 1 >= Len(cs) - LIQUIDITY_LOOKBACK}
  IN  \E i, j \in recent : i < j /\ EqualPair(cs[i].l, cs[j].l)

\* getDynamicSweepWickRatio(candles): atr is the object calculateATR returns,
\* so atr / avgPrice is NaN and both comparisons fail: 0.6, in tenths
SweepWickRatioTenths == 6

\* detectLiquiditySweeps(candles, 5): the positions of the sweeps (the last
\* candle or nothing)
BullishSweeps(cs) ==
  IF Len(cs) < 6 THEN {}
  ELSE LET last == cs[Len(cs)]
           recentLow == SetMin({cs[i].l : i \in (Len(cs) - 5)..(Len(cs) - 1)})
           lowerWick == Min(last.c, last.o) - last.l
       IN  IF /\ last.l < recentLow /\ last.c > recentLow
              /\ lowerWick * 10 > (last.h - last.l) * SweepWickRatioTenths
           THEN {Len(cs)} ELSE {}
BearishSweeps(cs) ==
  IF Len(cs) < 6 THEN {}
  ELSE LET last == cs[Len(cs)]
           recentHigh == SetMax({cs[i].h : i \in (Len(cs) - 5)..(Len(cs) - 1)})
           upperWick == last.h - Max(last.c, last.o)
       IN  IF /\ last.h > recentHigh /\ last.c < recentHigh
              /\ upperWick * 10 > (last.h - last.l) * SweepWickRatioTenths
           THEN {Len(cs)} ELSE {}

\* detectOrderBlocks(candles, 10): the positions of the order-block candles
BullishOB(cs) ==
  IF Len(cs) < 10 THEN {}
  ELSE {i \in (Len(cs) - 8)..(Len(cs) - 1) :
          /\ cs[i].c < cs[i].o /\ cs[i + 1].c > cs[i + 1].o
          /\ 2 * Abs(cs[i + 1].c - cs[i + 1].o) > 3 * Abs(cs[i].c - cs[i].o)}
BearishOB(cs) ==
  IF Len(cs) < 10 THEN {}
  ELSE {i \in (Len(cs) - 8)..(Len(cs) - 1) :
          /\ cs[i].c > cs[i].o /\ cs[i + 1].c < cs[i + 1].o
          /\ 2 * Abs(cs[i + 1].c - cs[i + 1].o) > 3 * Abs(cs[i].c - cs[i].o)}

\* detectImbalance(candles, 10): the positions (of the middle candle) of the
\* gaps wider than IMB_MIN_GAP = 1.5 pips
BullishIMB(cs) ==
  IF Len(cs) < 3 THEN {}
  ELSE {i \in (Max(1, Len(cs) - 9) + 1)..(Len(cs) - 1) :
          (cs[i + 1].l - cs[i - 1].h) * 2 > 3 * PIP}
BearishIMB(cs) ==
  IF Len(cs) < 3 THEN {}
  ELSE {i \in (Max(1, Len(cs) - 9) + 1)..(Len(cs) - 1) :
          (cs[i - 1].l - cs[i + 1].h) * 2 > 3 * PIP}

\* detectBreakerBlocks / detectMitigationBlocks(candles, orderBlocks, sweeps):
\* an order block with / without a sweep at most BREAKER_LOOKBACK candles before it
PriorSweeps(ob, sweeps) == {s \in sweeps : s < ob /\ ob - s <= BREAKER_LOOKBACK}
Breakers(cs, obs, sweeps) ==
  IF Len(cs) < BREAKER_LOOKBACK THEN {} ELSE {ob \in obs : PriorSweeps(ob, sweeps) # {}}
MitigationBlocks(cs, obs, sweeps) ==
  IF Len(cs) < BREAKER_LOOKBACK THEN {} ELSE {ob \in obs : PriorSweeps(ob, sweeps) = {}}

\* detectRejectionBlocks(candles, 10): wick / totalRange >= 0.5, which is NaN
\* (false) on a candle without range
BearishRejection(cs) ==
  IF Len(cs) < 10 THEN {}
  ELSE {i \in (Len(cs) - 9)..Len(cs) :
          /\ cs[i].h - cs[i].l > 0
          /\ 2 * (cs[i].h - Max(cs[i].o, cs[i].c)) >= cs[i].h - cs[i].l}
BullishRejection(cs) ==
  IF Len(cs) < 10 THEN {}
  ELSE {i \in (Len(cs) - 9)..Len(cs) :
          /\ cs[i].h - cs[i].l > 0
          /\ 2 * (Min(cs[i].o, cs[i].c) - cs[i].l) >= cs[i].h - cs[i].l}

\* detectInducement(candles, 5): a swing (lookback 2) followed by a move more
\* than INDUCEMENT_MOVE_MULTIPLIER = 3.33 times the distance to the swing before it
PreviousIn(S, i) == SetMax({j \in S : j < i})
BullishInducement(cs) ==
  IF Len(cs) < INDUCEMENT_LOOKBACK + 3 THEN {}
  ELSE LET sl == SwingLows(cs, INDUCEMENT_SWING_LOOKBACK)
       IN  {i \in sl :
              /\ i # SetMin(sl)
              /\ i - 1 < Len(cs) - 3
              /\ LET after == {cs[k].h : k \in i..Min(i + INDUCEMENT_LOOKBACK - 1, Len(cs))}
                     moveSize == SetMax(after) - cs[i].l
                     swingSize == Abs(cs[i].l - cs[PreviousIn(sl, i)].l)
                 IN  swingSize > 0 /\ moveSize * 100 > 333 * swingSize}
BearishInducement(cs) ==
  IF Len(cs) < INDUCEMENT_LOOKBACK + 3 THEN {}
  ELSE LET sh == SwingHighs(cs, INDUCEMENT_SWING_LOOKBACK)
       IN  {i \in sh :
              /\ i # SetMin(sh)
              /\ i - 1 < Len(cs) - 3
              /\ LET after == {cs[k].l : k \in i..Min(i + INDUCEMENT_LOOKBACK - 1, Len(cs))}
                     moveSize == cs[i].h - SetMin(after)
                     swingSize == Abs(cs[i].h - cs[PreviousIn(sh, i)].h)
                 IN  swingSize > 0 /\ moveSize * 100 > 333 * swingSize}

NoRange == [rangeHigh |-> 0, rangeLow |-> 0, rangeSize |-> 0]
\* getDynamicTradingRange(candles, marketStructure); NoRange is null
GetDynamicTradingRange(cs, ms) ==
  IF \/ Len(cs) < 20
     \/ Cardinality(ms.swingHighs) < 2 \/ Cardinality(ms.swingLows) < 2
     \/ (ms.lastBOS = "null" /\ ms.lastCHoCH = "null")
  THEN NoRange
  ELSE LET lastSwingHigh == cs[SetMax(ms.swingHighs)].h
           lastSwingLow == cs[SetMax(ms.swingLows)].l
           prevSwingHigh == cs[PreviousIn(ms.swingHighs, SetMax(ms.swingHighs))].h
           prevSwingLow == cs[PreviousIn(ms.swingLows, SetMax(ms.swingLows))].l
           hi == IF ms.lastBOS # "null" THEN lastSwingHigh ELSE Max(lastSwingHigh, prevSwingHigh)
           lo == IF ms.lastBOS # "null" THEN lastSwingLow ELSE Min(lastSwingLow, prevSwingLow)
       IN  [rangeHigh |-> hi, rangeLow |-> lo, rangeSize |-> hi - lo]

NoPremiumDiscount ==
  [rangeHigh |-> 0, rangeLow |-> 0, rangeSize |-> 0, currentZone |-> "null",
   zonePercentage |-> 0, bias |-> "null"]
\* Math.round(x / y * 100) for y > 0
RoundPercent(x, y) == (200 * x + y) \div (2 * y)
\* calculatePremiumDiscount(candles, 40, marketStructure); NoPremiumDiscount is null
CalculatePremiumDiscount(cs, ms) ==
  IF Len(cs) < LIQUIDITY_LOOKBACK THEN NoPremiumDiscount
  ELSE
    LET dyn == GetDynamicTradingRange(cs, ms)
        recent == (Len(cs) - LIQUIDITY_LOOKBACK + 1)..Len(cs)
        range == IF dyn # NoRange /\ dyn.rangeSize > 0 THEN dyn
                 ELSE LET hi == SetMax({cs[i].h : i \in recent})
                          lo == SetMin({cs[i].l : i \in recent})
                      IN  [rangeHigh |-> hi, rangeLow |-> lo, rangeSize |-> hi - lo]
        currentPrice == cs[Len(cs)].c
        zone == IF 4 * (currentPrice - range.rangeLow) >= 3 * range.rangeSize THEN "PREMIUM"
                ELSE IF 4 * (currentPrice - range.rangeLow) <= range.rangeSize THEN "DISCOUNT"
                ELSE "EQUILIBRIUM"
    IN  IF range.rangeSize = 0 THEN NoPremiumDiscount
        ELSE [rangeHigh |-> range.rangeHigh, rangeLow |-> range.rangeLow,
              rangeSize |-> range.rangeSize, currentZone |-> zone,
              zonePercentage |-> RoundPercent(currentPrice - range.rangeLow, range.rangeSize),
              bias |-> IF zone = "PREMIUM" THEN "BEARISH"
                       ELSE IF zone = "DISCOUNT" THEN "BULLISH" ELSE "NEUTRAL"]

\* calculateOTE(rangeHigh, rangeLow) inside analyzeSmartMoney; NoRange is null
CalculateOTE(pd) ==
  IF pd = NoPremiumDiscount \/ pd.rangeHigh = 0 \/ pd.rangeLow = 0 \/ pd.rangeHigh <= pd.rangeLow
  THEN NoRange
  ELSE [rangeHigh |-> pd.rangeHigh, rangeLow |-> pd.rangeLow,
        rangeSize |-> pd.rangeHigh - pd.rangeLow]

\* isInOTEZone(currentPrice, oteData, direction): 0.214 .. 0.295 of the range
\* from its bottom for BUY, 0.705 .. 0.786 for SELL
IsInOTEZoneAlways(currentPrice, ote, direction) == TRUE
IsInOTEZone(currentPrice, ote, direction) ==
  IF ote = NoRange \/ currentPrice = 0 THEN FALSE
  ELSE LET x == 1000 * (currentPrice - ote.rangeLow)
       IN  IF direction = "BUY" THEN x >= 214 * ote.rangeSize /\ x <= 295 * ote.rangeSize
           ELSE IF direction = "SELL" THEN x >= 705 * ote.rangeSize /\ x <= 786 * ote.rangeSize
           ELSE FALSE

\* analyzeSmartMoney(candles): what the engines read of its result; the record
\* with enabled = FALSE is null
NoSmcData ==
  [enabled |-> FALSE, lastCHoCH |-> "null", lastBOS |-> "null", structure |-> "NEUTRAL",
   bullishOB |-> FALSE, bearishOB |-> FALSE, bullishIMB |-> FALSE, bearishIMB |-> FALSE,
   bullishSweeps |-> FALSE, bearishSweeps |-> FALSE, eqHighs |-> FALSE, eqLows |-> FALSE,
   bullishBreakers |-> FALSE, bearishBreakers |-> FALSE,
   bullishMitigation |-> FALSE, bearishMitigation |-> FALSE,
   bullishRejection |-> FALSE, bearishRejection |-> FALSE,
   bullishInducement |-> FALSE, bearishInducement |-> FALSE,
   premiumDiscount |-> NoPremiumDiscount, ote |-> NoRange]
AnalyzeSmartMoney(cs) ==
  IF Len(cs) < 25 THEN NoSmcData
  ELSE
    LET ms == DetectMarketStructure(cs)
        pd == CalculatePremiumDiscount(cs, ms)
    IN  [enabled |-> TRUE, lastCHoCH |-> ms.lastCHoCH, lastBOS |-> ms.lastBOS,
         structure |-> ms.structure,
         bullishOB |-> BullishOB(cs) # {}, bearishOB |-> BearishOB(cs) # {},
         bullishIMB |-> BullishIMB(cs) # {}, bearishIMB |-> BearishIMB(cs) # {},
         bullishSweeps |-> BullishSweeps(cs) # {}, bearishSweeps |-> BearishSweeps(cs) # {},
         eqHighs |-> EqHighs(cs), eqLows |-> EqLows(cs),
         bullishBreakers |-> Breakers(cs, BullishOB(cs), BullishSweeps(cs)) # {},
         bearishBreakers |-> Breakers(cs, BearishOB(cs), BearishSweeps(cs)) # {},
         bullishMitigation |-> MitigationBlocks(cs, BullishOB(cs), BullishSweeps(cs)) # {},
         bearishMitigation |-> MitigationBlocks(cs, BearishOB(cs), BearishSweeps(cs)) # {},
         bullishRejection |-> BullishRejection(cs) # {},
         bearishRejection |-> BearishRejection(cs) # {},
         bullishInducement |-> BullishInducement(cs) # {},
         bearishInducement |-> BearishInducement(cs) # {},
         premiumDiscount |-> pd, ote |-> CalculateOTE(pd)]

----------------------------------------------------------------------------
(* V12Engine (fixed-scoring engine): its own helpers and generateSignal.   *)
(* The exponential averages are computed in fixed point (EmaScale units    *)
(* per point) on closes taken relative to the first close of the window    *)

EmaScale == 1000
MIN_CANDLES == 35
TREND_GUARD_M15_CANDLES == 15
TREND_GUARD_H1_CANDLES == 35
\* TREND_GUARD_EMA_SLOPE_THRESHOLD = 0.00005, in points
SlopeThreshold == 5
CONFIDENCE_INCREMENT == 10

RECURSIVE SumTo(_, _)
SumTo(d, n) == IF n = 0 THEN 0 ELSE d[n] + SumTo(d, n - 1)

\* calculateQuickEMA(data, period): the element computed from data[1..n]
RECURSIVE EmaAt(_, _, _)
EmaAt(d, period, n) ==
  IF n = period THEN (SumTo(d, period) * EmaScale) \div period
  ELSE (2 * d[n] * EmaScale + EmaAt(d, period, n - 1) * (period - 1)) \div (period + 1)

\* closes.slice(-n), relative to its first element
RelativeCloses(cs, n) ==
  LET w == SliceLast(cs, n) IN [i \in 1..Len(w) |-> w[i].c - w[1].c]

\* the trend of one virtual timeframe: the slope over the last `back` elements
\* of the average and the side of the price
TimeframeTrend(cs, window, period, back) ==
  LET d == RelativeCloses(cs, window)
      last == EmaAt(d, period, window)
      before == EmaAt(d, period, window - back)
      priceAboveEma == d[window] * EmaScale > last
  IN  IF last - before > SlopeThreshold * EmaScale * back /\ priceAboveEma THEN "BULLISH"
      ELSE IF last - before < -(SlopeThreshold * EmaScale * back) /\ ~priceAboveEma
           THEN "BEARISH" ELSE "NEUTRAL"

\* calculateTrendContext(candles) of the engine
CalculateTrendContext(cs) ==
  LET m15 == IF Len(cs) >= TREND_GUARD_M15_CANDLES
             THEN TimeframeTrend(cs, TREND_GUARD_M15_CANDLES, 5, 2) ELSE "NEUTRAL"
      h1 == IF Len(cs) >= TREND_GUARD_H1_CANDLES
            THEN TimeframeTrend(cs, TREND_GUARD_H1_CANDLES, 20, 4) ELSE "NEUTRAL"
      base == [m15Trend |-> m15, h1Trend |-> h1, combinedTrend |-> "NEUTRAL", strength |-> 0,
               shouldPenalizeBuy |-> FALSE, shouldPenalizeSell |-> FALSE]
      combined == IF h1 # "NEUTRAL" THEN h1 ELSE m15
  IN  IF Len(cs) < TREND_GUARD_M15_CANDLES THEN base
      ELSE IF m15 = "BULLISH" /\ h1 = "BULLISH"
      THEN [base EXCEPT !.combinedTrend = "STRONGLY_BULLISH", !.shouldPenalizeSell = TRUE,
                        !.strength = 100]
      ELSE IF m15 = "BEARISH" /\ h1 = "BEARISH"
      THEN [base EXCEPT !.combinedTrend = "STRONGLY_BEARISH", !.shouldPenalizeBuy = TRUE,
                        !.strength = 100]
      ELSE IF m15 = h1 /\ m15 # "NEUTRAL"
      THEN [base EXCEPT !.combinedTrend = m15, !.strength = 70,
                        !.shouldPenalizeSell = (m15 = "BULLISH"),
                        !.shouldPenalizeBuy = (m15 = "BEARISH")]
      ELSE IF m15 # "NEUTRAL" \/ h1 # "NEUTRAL"
      THEN [base EXCEPT !.combinedTrend = combined, !.strength = 40,
                        !.shouldPenalizeSell = (combined = "BULLISH"),
                        !.shouldPenalizeBuy = (combined = "BEARISH")]
      ELSE base

\* calculateVelocityDelta(candles).aligned
VelocityAligned(cs) ==
  IF Len(cs) < 10 THEN "NONE"
  ELSE LET n == Len(cs)
           vNow3 == cs[n].c - cs[n - 3].c
           vPrev3 == cs[n - 3].c - cs[n - 6].c
       IN  IF vNow3 < 0 /\ vNow3 - vPrev3 < 0 THEN "BEARISH"
           ELSE IF vNow3 > 0 /\ vNow3 - vPrev3 > 0 THEN "BULLISH" ELSE "NONE"

\* the true range of candle i (i >= 2)
TrueRange(cs, i) ==
  Max(cs[i].h - cs[i].l, Max(Abs(cs[i].h - cs[i - 1].c), Abs(cs[i].l - cs[i - 1].c)))

\* the sum of d[a..b]
RECURSIVE SumRange(_, _, _)
SumRange(d, a, b) ==
  IF a > b THEN 0
  ELSE IF a = b THEN d[a]
  ELSE SumRange(d, a, (a + b) \div 2) + SumRange(d, (a + b) \div 2 + 1, b)

\* atrValues of calculateATR(candles, 14), in fixed point: the values the loop
\* appends for the true ranges tr[a..b], prev being the last value before them
\* (the loop over a..b is the loop over its first half, then over its second)
RECURSIVE AtrLoop(_, _, _, _)
AtrLoop(tr, a, b, prev) ==
  IF a > b THEN <<>>
  ELSE IF a = b THEN <<(tr[a] * EmaScale + prev * 13) \div 14>>
  ELSE LET first == AtrLoop(tr, a, (a + b) \div 2, prev)
       IN  first \o AtrLoop(tr, (a + b) \div 2 + 1, b, first[Len(first)])
AtrValues(tr) ==
  LET firstAtr == (SumTo(tr, 14) * EmaScale) \div 14
  IN  <<firstAtr>> \o AtrLoop(tr, 15, Len(tr), firstAtr)

\* calculateATR(candles, 14).ratio compared with 0.8 and 1.0: "NaN" is 0 / 0
AtrRatioClass(cs) ==
  IF Len(cs) < 15 THEN "MID"
  ELSE LET tr == [i \in 1..(Len(cs) - 1) |-> TrueRange(cs, i + 1)]
           values == AtrValues(tr)
           recent == SliceLast(values, 100)
           total == SumRange(recent, 1, Len(recent))
           current == values[Len(values)]
       IN  IF total = 0 THEN "NaN"
           ELSE IF current * Len(recent) * 10 < total * 8 THEN "LOW"
           ELSE IF current * Len(recent) > total THEN "HIGH" ELSE "MID"

\* detectPriceActionPatterns(candles) of the engine
PinBar(cs) ==
  LET last == cs[Len(cs)]
      bodySize == Abs(last.c - last.o)
      totalRange == last.h - last.l
      upperWick == last.h - Max(last.o, last.c)
      lowerWick == Min(last.o, last.c) - last.l
  IN  IF upperWick * 1000 > totalRange * 667 /\ bodySize * 1000 < totalRange * 333
      THEN "BEARISH_PIN"
      ELSE IF lowerWick * 1000 > totalRange * 667 /\ bodySize * 1000 < totalRange * 333
      THEN "BULLISH_PIN" ELSE "null"
Engulfing(cs) ==
  LET last == cs[Len(cs)]
      prev == cs[Len(cs) - 1]
      bigger == Abs(last.c - last.o) > Abs(prev.c - prev.o)
  IN  IF last.c > last.o /\ prev.c < prev.o
      THEN IF last.c > prev.o /\ last.o < prev.c /\ bigger THEN "BULLISH_ENGULFING" ELSE "null"
      ELSE IF last.c < last.o /\ prev.c > prev.o
      THEN IF last.c < prev.o /\ last.o > prev.c /\ bigger THEN "BEARISH_ENGULFING" ELSE "null"
      ELSE "null"

\* SCORES of the engine that the scoring reads
LIQUIDITY_SWEEP_REVERSAL == 95
BREAKER_BLOCK_CONFLUENCE == 85
CHOCH_OB_CONFLUENCE == 45
CHOCH_FVG_CONFLUENCE == 50
PREMIUM_DISCOUNT_ALIGNED == 45
ORDER_BLOCK_SCORE == 50
REJECTION_SCORE == 35
FVG_SCORE == 35
MITIGATION_SCORE == 15
INDUCEMENT_SCORE == 12
BOS_STRONG_TREND == 35
PRICE_ACTION_PATTERN == 25
TREND_ALIGNMENT == 20
LIQUIDITY_PROXIMITY == 15
VELOCITY_DELTA_ALIGNED == 45
COUNTER_TREND_NO_CHOCH == -70
PREMIUM_DISCOUNT_MISALIGNED == -60
WEAK_TREND == -40
LOW_VOLATILITY == -50
HTF_DIVERGENCE == -40
BEARISH_PIN_BAR_TOXIC == -50
COUNTER_PRICE_ACTION == -40
MARKET_STRUCTURE_DIVERGENCE == -35
NEUTRAL_H1_PENALTY == -20

\* CONFIDENCE_THRESHOLDS[10 * k], k = 1..9
CONFIDENCE_THRESHOLDS == <<30, 60, 95, 130, 220, 260, 300, 350, 400>>

Bonus(cond, points) == IF cond THEN points ELSE 0
\* a penalty the code adds to whichever score is the larger
PenalizeLarger(s, cond, penalty) ==
  IF cond /\ s.buy > s.sell THEN [s EXCEPT !.buy = @ + penalty]
  ELSE IF cond /\ s.sell > s.buy THEN [s EXCEPT !.sell = @ + penalty]
  ELSE s

\* the scores after the block "if (smcData) { ... }" and the price-action,
\* trend and velocity additions
BaseScores(smc, trend, pin, engulfing, aligned) ==
  LET chochBuy == IF smc.lastCHoCH # "BULLISH_CHoCH" THEN 0
                  ELSE IF smc.bullishOB THEN CHOCH_OB_CONFLUENCE
                  ELSE IF smc.bullishIMB THEN CHOCH_FVG_CONFLUENCE ELSE 45
      chochSell == IF smc.lastCHoCH # "BEARISH_CHoCH" THEN 0
                   ELSE IF smc.bearishOB THEN CHOCH_OB_CONFLUENCE
                   ELSE IF smc.bearishIMB THEN CHOCH_FVG_CONFLUENCE ELSE 45
      pd == smc.premiumDiscount
  IN  [buy |-> chochBuy
               + Bonus(smc.bullishSweeps, LIQUIDITY_SWEEP_REVERSAL)
               + Bonus(smc.lastBOS = "BULLISH_BOS" /\ trend.strength >= 70, BOS_STRONG_TREND)
               + Bonus(smc.bullishOB, ORDER_BLOCK_SCORE)
               + Bonus(smc.bullishIMB, FVG_SCORE)
               + Bonus(smc.eqLows, LIQUIDITY_PROXIMITY)
               + Bonus(smc.bullishBreakers, BREAKER_BLOCK_CONFLUENCE)
               + Bonus(smc.bullishRejection, REJECTION_SCORE)
               + Bonus(pd.currentZone = "DISCOUNT" /\ pd.bias = "BULLISH", PREMIUM_DISCOUNT_ALIGNED)
               + Bonus(smc.bullishInducement, INDUCEMENT_SCORE)
               + Bonus(smc.bullishMitigation, MITIGATION_SCORE)
               + Bonus(pin = "BULLISH_PIN", PRICE_ACTION_PATTERN)
               + Bonus(engulfing = "BULLISH_ENGULFING", 20)
               + Bonus(trend.strength >= 70 /\ trend.combinedTrend \in {"BULLISH", "STRONGLY_BULLISH"},
                       TREND_ALIGNMENT)
               + Bonus(aligned = "BULLISH", VELOCITY_DELTA_ALIGNED)
               + Bonus(trend.shouldPenalizeBuy /\ smc.lastCHoCH = "null", COUNTER_TREND_NO_CHOCH),
       sell |-> chochSell
               + Bonus(smc.bearishSweeps, LIQUIDITY_SWEEP_REVERSAL)
               + Bonus(smc.lastBOS = "BEARISH_BOS" /\ trend.strength >= 70, BOS_STRONG_TREND)
               + Bonus(smc.bearishOB, ORDER_BLOCK_SCORE)
               + Bonus(smc.bearishIMB, FVG_SCORE)
               + Bonus(smc.eqHighs, LIQUIDITY_PROXIMITY)
               + Bonus(smc.bearishBreakers, BREAKER_BLOCK_CONFLUENCE)
               + Bonus(smc.bearishRejection, REJECTION_SCORE)
               + Bonus(pd.currentZone = "PREMIUM" /\ pd.bias = "BEARISH", PREMIUM_DISCOUNT_ALIGNED)
               + Bonus(smc.bearishInducement, INDUCEMENT_SCORE)
               + Bonus(smc.bearishMitigation, MITIGATION_SCORE)
               + Bonus(pin = "BEARISH_PIN", BEARISH_PIN_BAR_TOXIC)
               + Bonus(engulfing = "BEARISH_ENGULFING", 20)
               + Bonus(trend.strength >= 70 /\ trend.combinedTrend \in {"BEARISH", "STRONGLY_BEARISH"},
                       TREND_ALIGNMENT)
               + Bonus(aligned = "BEARISH", VELOCITY_DELTA_ALIGNED)
               + Bonus(trend.shouldPenalizeSell /\ smc.lastCHoCH = "null", COUNTER_TREND_NO_CHOCH)]

\* the penalties applied in sequence, each reading the scores the ones before
\* it left, then Math.max(0, .)
\* "PENALTY 2: Premium/Discount misalignment"
PenalizeZone(s, pd) ==
  LET s2 == IF pd.currentZone = "PREMIUM" /\ s.buy > s.sell
            THEN [s EXCEPT !.buy = @ + PREMIUM_DISCOUNT_MISALIGNED] ELSE s
  IN  IF pd.currentZone = "DISCOUNT" /\ s2.sell > s2.buy
      THEN [s2 EXCEPT !.sell = @ + PREMIUM_DISCOUNT_MISALIGNED] ELSE s2
\* "HTF divergence": the signal against the M15 trend
PenalizeDivergence(s, trend) ==
  IF trend.m15Trend = "BULLISH" /\ s.sell > s.buy
  THEN [s EXCEPT !.sell = @ + HTF_DIVERGENCE]
  ELSE IF trend.m15Trend = "BEARISH" /\ s.buy > s.sell
  THEN [s EXCEPT !.buy = @ + HTF_DIVERGENCE] ELSE s
\* counter price action and market-structure divergence, both read against
\* the direction that is the stronger before them
PenalizeCounter(s, smc, pin, engulfing) ==
  LET strongerDirection == IF s.buy > s.sell THEN "BUY" ELSE "SELL"
      buy == IF strongerDirection = "SELL" THEN s.buy
             ELSE s.buy + Bonus(pin = "BEARISH_PIN", -20)
                        + Bonus(engulfing = "BEARISH_ENGULFING", -30)
      sell == IF strongerDirection = "SELL"
              THEN s.sell + Bonus(pin = "BULLISH_PIN", COUNTER_PRICE_ACTION)
                          + Bonus(engulfing = "BULLISH_ENGULFING", -30)
              ELSE s.sell
  IN  [buy |-> buy + Bonus(smc.structure = "LH_LL" /\ strongerDirection = "BUY",
                           MARKET_STRUCTURE_DIVERGENCE),
       sell |-> sell + Bonus(smc.structure = "HH_HL" /\ strongerDirection = "SELL",
                             MARKET_STRUCTURE_DIVERGENCE)]
FloorAtZero(s) == [buy |-> Max(0, s.buy), sell |-> Max(0, s.sell)]
PenalizedScores(base, smc, trend, pin, engulfing, atrClass) ==
  FloorAtZero(
    PenalizeCounter(
      PenalizeLarger(
        PenalizeDivergence(
          PenalizeLarger(
            PenalizeZone(
              PenalizeLarger(base, trend.strength < 40 /\ trend.strength > 0, WEAK_TREND),
              smc.premiumDiscount),
            atrClass = "LOW", LOW_VOLATILITY),
          trend),
        trend.h1Trend = "NEUTRAL", NEUTRAL_H1_PENALTY),
      smc, pin, engulfing))

\* the confluence multipliers, applied to the larger score and floored; the
\* factors are in hundredths, tenths and hundredths
MultipliedScores(s, smc, trend, atrClass) ==
  LET pd == smc.premiumDiscount
      trendMultiplier ==
        IF \/ trend.m15Trend = "BULLISH" /\ s.buy > s.sell
           \/ trend.m15Trend = "BEARISH" /\ s.sell > s.buy THEN 125
        ELSE IF \/ trend.m15Trend = "BULLISH" /\ s.sell > s.buy
                \/ trend.m15Trend = "BEARISH" /\ s.buy > s.sell THEN 75
        ELSE 100
      pdZoneMultiplier ==
        IF \/ pd.currentZone = "DISCOUNT" /\ pd.zonePercentage < 20 /\ s.buy > s.sell
           \/ pd.currentZone = "PREMIUM" /\ pd.zonePercentage > 80 /\ s.sell > s.buy
        THEN 12 ELSE 10
      volMultiplier == IF atrClass = "HIGH" THEN 115 ELSE IF atrClass = "LOW" THEN 50 ELSE 100
      Scaled(x) == (x * trendMultiplier * pdZoneMultiplier * volMultiplier) \div 100000
  IN  IF s.buy > s.sell THEN [s EXCEPT !.buy = Scaled(@)]
      ELSE IF s.sell > s.buy THEN [s EXCEPT !.sell = Scaled(@)]
      ELSE s

\* "Convert raw score to confidence percentage"
RawConfidence(rawScore) ==
  LET T == CONFIDENCE_THRESHOLDS
      Band(k) == 10 * k + ((rawScore - T[k]) * CONFIDENCE_INCREMENT) \div (T[k + 1] - T[k])
  IN  IF rawScore >= T[9]
      THEN 90 + Min(CONFIDENCE_INCREMENT, (rawScore - T[9]) \div CONFIDENCE_INCREMENT)
      ELSE IF \E k \in 1..8 : rawScore >= T[k]
      THEN Band(SetMax({k \in 1..8 : rawScore >= T[k]}))
      ELSE Max(1, Min(9, (rawScore * 9) \div T[1] + 1))

NoV12Signal == [action |-> "null", confidence |-> -1, rawScore |-> 0]

\* the conflict halving and the two caps that follow the conversion
HalveIfConflicted(c, isConflicted) == IF isConflicted THEN c \div 2 ELSE c
CapWithoutFvgAndOb(c, smc) ==
  LET hasFVG == smc.bullishIMB \/ smc.bearishIMB
      hasOB == smc.bullishOB \/ smc.bearishOB \/ smc.bullishBreakers \/ smc.bearishBreakers
  IN  IF c >= 50 /\ ~(hasFVG /\ hasOB) THEN Min(45, c) ELSE c
CapOutsideOTE(c, smc, lastClose, action) ==
  IF smc.enabled /\ smc.ote # NoRange /\ c >= 50 /\ ~IsInOTEZone(lastClose, smc.ote, action)
  THEN Min(45, c) ELSE c

\* the final decision of generateSignal from the scores s
DecisionRawScore(s, smc, lastClose) ==
  [action |-> IF s.sell > s.buy THEN "SELL" ELSE "BUY",
   confidence |-> Max(s.buy, s.sell), rawScore |-> Max(s.buy, s.sell)]
Decision(s, smc, lastClose) ==
  LET maxScore == Max(s.buy, s.sell)
      minScore == Min(s.buy, s.sell)
      \* scoreDifference < 20
      isConflicted == IF maxScore > 0 THEN (maxScore - minScore) * 100 < 20 * maxScore ELSE TRUE
      action == IF s.sell > s.buy THEN "SELL" ELSE "BUY"
      rawScore == IF s.buy = s.sell THEN Max(Max(s.buy, s.sell), 1) ELSE maxScore
  IN  [action |-> action,
       confidence |->
         Min(100, CapOutsideOTE(
                    CapWithoutFvgAndOb(
                      HalveIfConflicted(Min(100, RawConfidence(rawScore)), isConflicted), smc),
                    smc, lastClose, action)),
       rawScore |-> rawScore]

\* the final decision of generateSignal from the indicator results
V12DecideRawScore(smc, trend, pin, engulfing, aligned, atrClass, lastClose) ==
  DecisionRawScore(
    MultipliedScores(
      PenalizedScores(BaseScores(smc, trend, pin, engulfing, aligned),
                      smc, trend, pin, engulfing, atrClass),
      smc, trend, atrClass),
    smc, lastClose)
V12Decide(smc, trend, pin, engulfing, aligned, atrClass, lastClose) ==
  Decision(
    MultipliedScores(
      PenalizedScores(BaseScores(smc, trend, pin, engulfing, aligned),
                      smc, trend, pin, engulfing, atrClass),
      smc, trend, atrClass),
    smc, lastClose)

\* V12Engine.generateSignal(candles) of an engine built with or without the
\* indicator library (indicators) and the SMC library (useSMC)
V12GenerateSignal(cs, indicators, useSMC) ==
  IF ~indicators THEN NoV12Signal
  ELSE IF Len(cs) < MIN_CANDLES THEN NoV12Signal
  ELSE \* const atrData = calculateATR(candles, 14) comes first
       LET Decided(atrClass) ==
             V12Decide(IF useSMC THEN AnalyzeSmartMoney(cs) ELSE NoSmcData,
                       CalculateTrendContext(cs), PinBar(cs), Engulfing(cs),
                       VelocityAligned(cs), atrClass, cs[Len(cs)].c)
       IN  CHOOSE r \in {Decided(atrClass) : atrClass \in {AtrRatioClass(cs)}} : TRUE

----------------------------------------------------------------------------
(* The fixed-scoring engine called on candle arrays: a history of flat     *)
(* candles at 1.1000 to which candles of a few shapes are appended         *)

\* 1.1000 in points
FlatPrice == 110000
Flat(price) == [o |-> price, h |-> price, l |-> price, c |-> price]
FlatHistory(n) == [i \in 1..n |-> Flat(FlatPrice)]

\* the candle of a shape that opens at the close before it
Shapes == {"flat", "up", "down", "hammer", "star"}
Shaped(shape, p) ==
  CASE shape = "flat" -> Flat(p)
    [] shape = "up" -> [o |-> p, h |-> p + 35, l |-> p - 5, c |-> p + 30]
    [] shape = "down" -> [o |-> p, h |-> p + 5, l |-> p - 35, c |-> p - 30]
    [] shape = "hammer" -> [o |-> p, h |-> p + 5, l |-> p - 60, c |-> p + 3]
    [] shape = "star" -> [o |-> p, h |-> p + 60, l |-> p - 5, c |-> p - 3]

\* a new candle arrives
V12Append(shape) ==
  /\ candles' = Append(candles, Shaped(shape, candles[Len(candles)].c))
  /\ v12Out' = V12NotCalled
  /\ UNCHANGED <<libs, engine, engState, engOut, lastTick>>

\* engine.generateSignal(candles)
V12Call ==
  /\ v12Out' = V12GenerateSignal(candles, libs.indicators, libs.smc)
  /\ UNCHANGED <<candles, libs, engine, engState, engOut, lastTick>>

\* the engine (built with the libraries l) about to be called on the array cs
InitCallWith(cs, l, e, pairState) ==
  /\ ring = NewBuffer(Capacity)
  /\ inserted = <<>>
  /\ now = EngineEpoch
  /\ pairBuffers = EmptyMap
  /\ pairOhlcM1 = EmptyMap
  /\ pairLastPrices = EmptyMap
  /\ pairWarmupComplete = EmptyMap
  /\ warmupCandlesCount = DefaultWarmup
  /\ candleCount = EmptyMap
  /\ latestOpenTime = EmptyMap
  /\ tradeDurationMinutes = DefaultDuration
  /\ signals = <<>>
  /\ signalHistory = <<>>
  /\ mostRecentSignal = 0
  /\ pairLastSignals = EmptyMap
  /\ timers = {}
  /\ totalSignals = 0 /\ winningSignals = 0 /\ losingSignals = 0
  /\ highConfSignals = 0 /\ highConfWins = 0 /\ highConfLosses = 0
  /\ consecutiveLossesCount = 0
  /\ signalIntervalMinutes = DefaultInterval
  /\ lastSignalTriggeredAtMinute = -1
  /\ generationCalls = <<>>
  /\ pairEngineStates = EmptyMap
  /\ emitted = EmptyMap
  /\ stalled = EmptyMap
  /\ justCalled = "none"
  /\ fed = NotFed
  /\ candles = cs
  /\ libs = l
  /\ v12Out = V12NotCalled
  /\ engine = e
  /\ engState = pairState
  /\ engOut = [kind |-> "none"]
  /\ lastTick = NoTick
InitCall(cs, l, e) == InitCallWith(cs, l, e, NullState)

----------------------------------------------------------------------------------
(* The stateful engines called directly: V14Engine with the confidence of  *)
(* its signals, V17Engine and V18Engine.  The caller passes an array of    *)
(* len candles and the state it holds, at Date.now() = now                 *)

\* WEIGHTS of V14Engine
STATE_SWEPT == 20
STATE_DISPLACEMENT == 10
STATE_CHOCH == 10
STATE_RETEST == 10
BQI_FLOOR == 10
TREND_ALIGN == 10
PHASE_EXPANSION == 7
MOMENTUM_BOOST == 13
PA_CONFIRM == 10

\* calculateConfidence(pairState, smcData, extraFactors) of V14Engine; ctx is
\* smcData.marketStructure.m15Trend and smcData.marketPhase
CalculateConfidence(status, direction, lastBQI, ctx, momentum, pa) ==
  LET score ==
        Bonus(status = "LIQUIDITY_SWEPT", STATE_SWEPT)
        + Bonus(status = "DISPLACEMENT", STATE_SWEPT + STATE_DISPLACEMENT)
        + Bonus(status = "CHOCH", STATE_SWEPT + STATE_DISPLACEMENT + STATE_CHOCH)
        + Bonus(status = "RETEST",
                STATE_SWEPT + STATE_DISPLACEMENT + STATE_CHOCH + STATE_RETEST)
        + Bonus(lastBQI >= BQI_THRESHOLD, BQI_FLOOR)
        + Bonus(ctx.m15Trend = direction, TREND_ALIGN)
        + Bonus(ctx.marketPhase # "CONTRACTION", PHASE_EXPANSION)
        + Bonus(momentum, MOMENTUM_BOOST)
        + Bonus(pa, PA_CONFIRM)
  IN  Min(100, score)

\* the confidence of the signal each path of V14Engine builds: the fast paths
\* and checkHybridSetup call calculateConfidence themselves, triggerSignal calls
\* it with the state as the switch left it
V14SignalConfidence(signal, ps, obs, ctx) ==
  CASE signal.reason = "Velocity Strike" ->
         CalculateConfidence("DISPLACEMENT", signal.action, 50, ctx, TRUE, TRUE)
    [] signal.reason = "Gap & Go" ->
         CalculateConfidence("DISPLACEMENT", signal.action, 45, ctx, TRUE, FALSE)
    [] signal.reason = "Sniper" ->
         CalculateConfidence("LIQUIDITY_SWEPT", signal.action, 45, ctx, FALSE, TRUE)
    [] signal.reason = "Hybrid Setup" ->
         CalculateConfidence(ps.status, ps.direction, ps.lastBQI, ctx, FALSE, TRUE)
    [] signal.reason = "FastTrack Entry" ->
         CalculateConfidence("CHOCH", ps.direction, obs.bqi, ctx, TRUE, FALSE)
    [] signal.reason = "Sequence Complete" ->
         CalculateConfidence("RETEST", ps.direction, ps.lastBQI, ctx, FALSE, FALSE)

\* what a call comes to: kind "null" (the stub of an engine built without
\* TechnicalIndicators returns null), "throws", or "returned" with the signal
\* and the updatedState; state is the state the caller holds afterwards
NoSig == [action |-> "null", confidence |-> -1]
ReturnsNull(pairState) == [kind |-> "null", signal |-> NoSig, state |-> pairState]
Throws(pairState) == [kind |-> "throws", signal |-> NoSig, state |-> pairState]
Returns(signal, updatedState) ==
  [kind |-> "returned", signal |-> signal, state |-> updatedState]

\* V14Engine: generateSignal(candles, pair, pairState) of the engine built with
\* the libraries l; smcIndicators.analyzeSmartMoney is the first use of the SMC
\* library
V14Returns(len, pairState, obs, ctx, ts, l) ==
  IF ~l.indicators THEN ReturnsNull(pairState)
  ELSE
    LET s0 == IF pairState.status = "null" THEN ResetState(0) ELSE pairState
        out == V14GenerateSignal(len, pairState, obs, ts)
    IN  IF len >= MinCandles /\ ~InCooldown(s0, ts) /\ ~l.smc THEN Throws(pairState)
        ELSE IF out.signal = NoEngineSignal THEN Returns(NoSig, out.updatedState)
        ELSE Returns([action |-> out.signal.action,
                      confidence |-> V14SignalConfidence(out.signal, s0, obs, ctx)],
                     out.updatedState)

\* V17Engine and V18Engine.  deepSight is kept as the winRate and the length of
\* virtualHistory that updateDeepSight leaves (an observation of the call)
V17_COOLDOWN_MS == 3 * 60 * 1000
NewDeepSight == [winRate |-> 0, history |-> 0]
V17ResetState(existingTimestamp, existingDeepSight) ==
  [status |-> "IDLE", direction |-> "null", lastUpdateCandle |-> 0,
   lastSignalTimestamp |-> existingTimestamp, deepSight |-> existingDeepSight]

\* triggerSignal(pairState, candles, smcData, pair)
\* ds.winRate >= 80 && ds.virtualHistory.length >= 3 (v17), >= 5 (v18)
IsHot(v18, ds) == ds.winRate >= 80 /\ ds.history >= (IF v18 THEN 5 ELSE 3)
V17TriggerSignalAfterReset(v18, pairState) ==
  [action |-> V17ResetState(0, pairState.deepSight).direction,
   confidence |-> IF IsHot(v18, pairState.deepSight) THEN 100 ELSE 75]
V17TriggerSignal(v18, pairState) ==
  [action |-> pairState.direction,
   confidence |-> IF IsHot(v18, pairState.deepSight) THEN 100 ELSE 75]

\* the v18 institutional filters
V18Filters(direction, obs) ==
  /\ \/ direction = "BUY" /\ obs.aligned = "BULLISH"
     \/ direction = "SELL" /\ obs.aligned = "BEARISH"
  /\ \/ direction = "BUY" /\ obs.m15Trend = "BULLISH"
     \/ direction = "SELL" /\ obs.m15Trend = "BEARISH"
  /\ \/ direction = "BUY" /\ obs.zone = "DISCOUNT"
     \/ direction = "SELL" /\ obs.zone = "PREMIUM"

\* generateSignal(candles, pair, pairState) of V17Engine (v18 FALSE) and of
\* V18Engine (v18 TRUE)
V17Returns(v18, len, pairState, obs, ts, l) ==
  IF ~l.indicators THEN ReturnsNull(pairState)
  ELSE IF len < MinCandles THEN Returns(NoSig, pairState)
  ELSE
    LET s0 == IF pairState.status = "null" THEN V17ResetState(0, NewDeepSight)
              ELSE pairState
        \* updateDeepSight(pairState, lastCandle.c), in place
        s1 == [s0 EXCEPT !.deepSight = obs.ds]
        s2 == IF /\ s1.status # "IDLE"
                 /\ (len - s1.lastUpdateCandle) > STATE_TIMEOUT_CANDLES
              THEN V17ResetState(s1.lastSignalTimestamp, s1.deepSight) ELSE s1
        s3 == IF obs.eqSweep # "none" /\ s2.status = "IDLE"
              THEN [s2 EXCEPT !.status = "LIQUIDITY_SWEPT", !.direction = obs.eqSweep,
                              !.lastUpdateCandle = len]
              ELSE s2
        isRejection == \/ s3.direction = "BUY" /\ obs.bullishPA
                       \/ s3.direction = "SELL" /\ obs.bearishPA
    IN  IF s1.lastSignalTimestamp # 0 /\ (ts - s1.lastSignalTimestamp) < V17_COOLDOWN_MS
        THEN Returns(NoSig, s1)
        ELSE IF ~l.smc
        THEN Throws(IF pairState.status = "null" THEN pairState ELSE s1)
        ELSE IF s3.status = "LIQUIDITY_SWEPT" /\ isRejection
        THEN IF v18 /\ ~IsHot(v18, s3.deepSight) /\ ~V18Filters(s3.direction, obs)
             THEN Returns(NoSig, s3)
             ELSE Returns(V17TriggerSignal(v18, s3), V17ResetState(ts, s3.deepSight))
        ELSE Returns(NoSig, s3)

\* the inputs of the calls
CallLengths == {MinCandles - 1, MinCandles, 2 * STATE_TIMEOUT_CANDLES}
Contexts ==
  {[m15Trend |-> "BULLISH", marketPhase |-> "EXPANSION"],
   [m15Trend |-> "NEUTRAL", marketPhase |-> "CONTRACTION"]}
CallObservations(status) ==
  LET quiet == KindObs({QuietObs}, Kinds)
      fast == FastObs \ {QuietObs}
  IN  CASE status = "LIQUIDITY_SWEPT" ->
             fast \cup {[o EXCEPT !.hybrid = h] : o \in quiet, h \in BOOLEAN}
        [] status = "DISPLACEMENT" ->
             fast \cup {[o EXCEPT !.aligned = a, !.bqi = b] :
                          o \in quiet, a \in {"NONE", "BULLISH", "BEARISH"},
                          b \in {BQI_THRESHOLD - 1, BQI_THRESHOLD}}
        [] OTHER -> fast \cup quiet
DeepSights ==
  {NewDeepSight, [winRate |-> 100, history |-> 4], [winRate |-> 80, history |-> 5]}
FilterObservations ==
  {[aligned |-> "BULLISH", m15Trend |-> "BULLISH", zone |-> "DISCOUNT"],
   [aligned |-> "BEARISH", m15Trend |-> "BEARISH", zone |-> "PREMIUM"],
   [aligned |-> "BULLISH", m15Trend |-> "BEARISH", zone |-> "DISCOUNT"],
   [aligned |-> "BEARISH", m15Trend |-> "BEARISH", zone |-> "EQUILIBRIUM"]}
V17Observations ==
  {[eqSweep |-> e, bullishPA |-> pa = "BULLISH", bearishPA |-> pa = "BEARISH", ds |-> ds,
    aligned |-> f.aligned, m15Trend |-> f.m15Trend, zone |-> f.zone] :
     e \in {"none", "BUY", "SELL"}, pa \in {"none", "BULLISH", "BEARISH"},
     ds \in DeepSights, f \in FilterObservations}

\* the caller: it keeps the state the call leaves it with
Called(len, r) ==
  /\ engOut' = [kind |-> r.kind, len |-> len, prior |-> engState, signal |-> r.signal,
                state |-> r.state]
  /\ engState' = r.state
  /\ UNCHANGED <<candles, libs, v12Out, engine, lastTick>>
V14EngineCall(len, obs, ctx) ==
  /\ engine = "V14"
  /\ Called(len, V14Returns(len, engState, obs, ctx, now, libs))
V17EngineCall(len, obs) ==
  /\ engine \in {"V17", "V18"}
  /\ Called(len, V17Returns(engine = "V18", len, engState, obs, now, libs))
\* time passes between the calls
CallClock(minutes) ==
  /\ now + minutes * 60000 <= EngineEpoch + CallHorizon * 60000
  /\ now' = now + minutes * 60000

----------------------------------------------------------------------------
(* Deep Sight of V17Engine and V18Engine: the shadow trades, their         *)
(* outcomes and the win rate, computed as updateDeepSight computes them    *)

\* if (ds.virtualHistory.length > 5) ds.virtualHistory.shift()  (10 in v18)
V17_HISTORY_CAP == 5
V18_HISTORY_CAP == 10
HistoryCap(v18) == IF v18 THEN V18_HISTORY_CAP ELSE V17_HISTORY_CAP
\* expiry: now + (3 * 60 * 1000)
SHADOW_DURATION_MS == 3 * 60 * 1000

\* deepSight of resetState
FreshDeepSight == [shadowTrades |-> <<>>, virtualHistory |-> <<>>, winRate |-> 0]
OracleResetState(existingTimestamp, existingDeepSight) ==
  [status |-> "IDLE", direction |-> "null", lastUpdateCandle |-> 0,
   lastSignalTimestamp |-> existingTimestamp, deepSight |-> existingDeepSight]

\* (trade.direction === 'BUY' && currentPrice > trade.startPrice) || (... 'SELL' && <)
ShadowIsWin(trade, currentPrice) ==
  \/ trade.direction = "BUY" /\ currentPrice > trade.startPrice
  \/ trade.direction = "SELL" /\ currentPrice < trade.startPrice

\* ds.virtualHistory.push(outcome); if (length > cap) ds.virtualHistory.shift()
PushOutcomeKeepsOldest(h, outcome, cap) ==
  IF Len(h) + 1 > cap THEN h ELSE Append(h, outcome)
PushOutcome(h, outcome, cap) ==
  IF Len(h) + 1 > cap THEN Tail(Append(h, outcome)) ELSE Append(h, outcome)

\* ds.shadowTrades.forEach(...): the history after the trades 1..n were visited
RECURSIVE ResolvedHistory(_, _, _, _, _, _)
ResolvedHistory(trades, n, h, cap, currentPrice, ts) ==
  IF n = 0 THEN h
  ELSE LET before == ResolvedHistory(trades, n - 1, h, cap, currentPrice, ts)
       IN  IF ts >= trades[n].expiry
           THEN PushOutcome(before,
                            IF ShadowIsWin(trades[n], currentPrice) THEN "WIN" ELSE "LOSS", cap)
           ELSE before

\* Math.round((wins / length) * 100)
WinRateFloored(h) ==
  IF Len(h) = 0 THEN 0
  ELSE (100 * Cardinality({i \in 1..Len(h) : h[i] = "WIN"})) \div Len(h)
WinRate(h) ==
  IF Len(h) = 0 THEN 0
  ELSE (200 * Cardinality({i \in 1..Len(h) : h[i] = "WIN"}) + Len(h)) \div (2 * Len(h))

\* updateDeepSight(pairState, currentPrice)
WithWinRate(trades, h) == [shadowTrades |-> trades, virtualHistory |-> h, winRate |-> WinRate(h)]
UpdateDeepSight(ds, cap, currentPrice, ts) ==
  WithWinRate(SelectSeq(ds.shadowTrades, LAMBDA trade : ~(ts >= trade.expiry)),
              ResolvedHistory(ds.shadowTrades, Len(ds.shadowTrades), ds.virtualHistory, cap,
                              currentPrice, ts))

\* isHot of triggerSignal
OracleIsHot(v18, ds) ==
  ds.winRate >= 80 /\ Len(ds.virtualHistory) >= (IF v18 THEN 5 ELSE 3)
OracleTriggerSignal(v18, pairState) ==
  [action |-> pairState.direction,
   confidence |-> IF OracleIsHot(v18, pairState.deepSight) THEN 100 ELSE 75]

\* "Deep Sight: Log Shadow Trade", inside the branch that leaves IDLE
LogShadowTradeAlways(pairState, swept, direction, lastClose, ts) ==
  [pairState EXCEPT !.deepSight.shadowTrades =
     Append(@, [startPrice |-> lastClose,
                direction |-> IF swept THEN direction ELSE pairState.direction,
                expiry |-> ts + SHADOW_DURATION_MS])]
LogShadowTrade(pairState, swept, direction, lastClose, ts) ==
  IF swept
  THEN [pairState EXCEPT !.deepSight.shadowTrades =
          Append(@, [startPrice |-> lastClose, direction |-> direction,
                     expiry |-> ts + SHADOW_DURATION_MS])]
  ELSE pairState

\* the steps of generateSignal after the cooldown check, on the state s1 that
\* updateDeepSight left
OracleTimeout(s, len) ==
  IF s.status # "IDLE" /\ (len - s.lastUpdateCandle) > STATE_TIMEOUT_CANDLES
  THEN OracleResetState(s.lastSignalTimestamp, s.deepSight) ELSE s
OracleSweep(s, obs, len, lastClose, ts) ==
  LogShadowTrade(
    IF obs.eqSweep # "none" /\ s.status = "IDLE"
    THEN [s EXCEPT !.status = "LIQUIDITY_SWEPT", !.direction = obs.eqSweep,
                   !.lastUpdateCandle = len]
    ELSE s,
    obs.eqSweep # "none" /\ s.status = "IDLE", obs.eqSweep, lastClose, ts)
OracleConfirm(v18, s, obs, ts) ==
  IF /\ s.status = "LIQUIDITY_SWEPT"
     /\ \/ s.direction = "BUY" /\ obs.bullishPA
        \/ s.direction = "SELL" /\ obs.bearishPA
  THEN IF v18 /\ ~OracleIsHot(v18, s.deepSight) /\ ~V18Filters(s.direction, obs)
       THEN Returns(NoSig, s)
       ELSE Returns(OracleTriggerSignal(v18, s), OracleResetState(ts, s.deepSight))
  ELSE Returns(NoSig, s)
OracleAfterUpdate(v18, s1, len, obs, lastClose, ts, l) ==
  IF s1.lastSignalTimestamp # 0 /\ (ts - s1.lastSignalTimestamp) < V17_COOLDOWN_MS
  THEN Returns(NoSig, s1)
  ELSE IF ~l.smc THEN Throws(s1)
  ELSE OracleConfirm(v18, OracleSweep(OracleTimeout(s1, len), obs, len, lastClose, ts), obs, ts)

\* generateSignal(candles, pair, pairState) of V17Engine (v18 FALSE) and of
\* V18Engine (v18 TRUE); len = candles.length, lastClose = lastCandle.c
OracleInitialized(pairState) ==
  IF pairState.status = "null" THEN OracleResetState(0, FreshDeepSight) ELSE pairState
OracleUpdated(s0, cap, lastClose, ts) ==
  [s0 EXCEPT !.deepSight = UpdateDeepSight(s0.deepSight, cap, lastClose, ts)]
OracleGenerateSignal(v18, len, pairState, obs, lastClose, ts, l) ==
  IF ~l.indicators THEN ReturnsNull(pairState)
  ELSE IF len < MinCandles THEN Returns(NoSig, pairState)
  ELSE OracleAfterUpdate(v18,
         OracleUpdated(OracleInitialized(pairState), HistoryCap(v18), lastClose, ts),
         len, obs, lastClose, ts, l)

\* the inputs of the calls: what the SMC library reports for the window
OracleObservations ==
  {[eqSweep |-> e, bullishPA |-> pa = "BULLISH", bearishPA |-> pa = "BEARISH",
    aligned |-> f.aligned, m15Trend |-> f.m15Trend, zone |-> f.zone] :
     e \in {"none", "BUY", "SELL"}, pa \in {"none", "BULLISH", "BEARISH"},
     f \in {g \in FilterObservations : g.aligned = g.m15Trend}}

\* the states a call can find: none yet, or an idle one whose history holds the
\* outcomes of cap - 1 shadow trades
SeasonedHistories(cap) ==
  {<<>>, [i \in 1..(cap - 1) |-> IF i = 1 THEN "WIN" ELSE "LOSS"]}
InitOracle(e, h) ==
  InitCallWith(<<>>, AllLibs, e,
               IF h = <<>> THEN NullState
               ELSE OracleResetState(0, WithWinRate(<<>>, h)))

\* the caller: it keeps the state the call leaves it with; the model stops
\* following a run that would hold more than MaxPending unresolved shadow trades
MaxPending == 1
OracleCall(len, obs, lastClose) ==
  /\ engine \in {"V17", "V18"}
  /\ LET r == OracleGenerateSignal(engine = "V18", len, engState, obs, lastClose, now, libs)
     IN  /\ r.state /= NullState => Len(r.state.deepSight.shadowTrades) <= MaxPending
         /\ engOut' = [kind |-> r.kind]
         /\ engState' = r.state
  /\ UNCHANGED <<candles, libs, v12Out, engine, lastTick>>
\* time passes between the calls
OracleHorizon == 3
OracleClock ==
  /\ now + SHADOW_DURATION_MS <= EngineEpoch + OracleHorizon * SHADOW_DURATION_MS
  /\ now' = now + SHADOW_DURATION_MS

----------------------------------------------------------------------
(* Shadow recovery in tickLoop                                             *)

\* engine.syncOracle(pair, prevState, price) of window.ProjectNexus, with the
\* learning state of the engines above: the first call creates the state,
\* later calls resolve the shadow trades that are due against the tick's price
\* into the bounded rolling history and return the state as a new object
NexusResetState == [status |-> "NEXUS", deepSight |-> FreshDeepSight]
NexusSyncOracle(prevState, price, ts) ==
  IF prevState = NullState THEN NexusResetState
  ELSE [prevState EXCEPT
          !.deepSight = UpdateDeepSight(prevState.deepSight, V17_HISTORY_CAP, price, ts)]

\* "v24.3 Shadow Recovery": the counter after the comparison of the histories
\* of prevState and of the state syncOracle returned
VirtualHistoryOf(pairState) ==
  IF pairState = NullState THEN <<>> ELSE pairState.deepSight.virtualHistory
ShadowRecovery(prevState, currState, streak) ==
  IF /\ prevState # NullState
     /\ currState # NullState
     /\ Len(VirtualHistoryOf(currState)) > Len(VirtualHistoryOf(prevState))
     /\ VirtualHistoryOf(currState)[Len(VirtualHistoryOf(currState))] = "WIN"
     /\ streak > 0
  THEN streak - 1 ELSE streak

\* the state tickLoop reads as prevState
PrevState(pair) ==
  IF pair \in DOMAIN pairEngineStates THEN pairEngineStates[pair] ELSE NullState
\* the counter after the entries of the pairs in todo were processed
RECURSIVE RecoveredStreak(_, _, _)
RecoveredStreak(todo, feed, streak) ==
  IF todo = {} THEN streak
  ELSE LET pair == CHOOSE p \in todo : TRUE
       IN  RecoveredStreak(todo \ {pair}, feed,
             ShadowRecovery(PrevState(pair),
                            NexusSyncOracle(PrevState(pair), feed[pair].v, now), streak))

\* tickLoop(): one pass over Object.entries(prices), the learning state kept
TickLoopRecovery(feed) ==
  LET touched == {p \in DOMAIN feed : Accepted(feed[p])}
      after == [p \in touched |-> CountTickEntry(p, feed[p].v)]
      keys == DOMAIN candleCount \cup touched
  IN  /\ pairEngineStates' =
           [p \in DOMAIN pairEngineStates \cup touched |->
              IF p \in touched THEN NexusSyncOracle(PrevState(p), feed[p].v, now)
              ELSE pairEngineStates[p]]
      /\ consecutiveLossesCount' = RecoveredStreak(touched, feed, consecutiveLossesCount)
      /\ candleCount' = [p \in keys |-> IF p \in touched THEN after[p].count ELSE candleCount[p]]
      /\ latestOpenTime' =
           [p \in keys |-> IF p \in touched THEN after[p].latest ELSE latestOpenTime[p]]
      /\ pairLastPrices' =
           [p \in keys |-> IF p \in touched THEN after[p].lastPrice ELSE pairLastPrices[p]]
      /\ pairWarmupComplete' =
           [p \in keys |-> IF p \in touched THEN after[p].warm ELSE pairWarmupComplete[p]]
      /\ pairLastSignals' =
           [p \in keys |-> IF p \in touched THEN after[p].lastSignal ELSE pairLastSignals[p]]

\* the learning states a session can hold: a history that is empty, one short
\* of its cap or full, and one shadow trade opened at time 0
LearntHistories ==
  {<<>>, [i \in 1..(V17_HISTORY_CAP - 1) |-> IF i = 1 THEN "WIN" ELSE "LOSS"],
         [i \in 1..V17_HISTORY_CAP |-> IF i = 1 THEN "WIN" ELSE "LOSS"]}
LearningState(h, direction, startPrice) ==
  [status |-> "NEXUS",
   deepSight |-> WithWinRate(<<[startPrice |-> startPrice, direction |-> direction,
                                expiry |-> SHADOW_DURATION_MS]>>, h)]
InitRecovery(k, h, direction, startPrice) ==
  InitRestoredWith(0, k, [p \in FeedPairs |-> LearningState(h, direction, startPrice)], {})
\* the shadow duration passes
RecoveryHorizon == 1
RecoveryClock ==
  /\ now + SHADOW_DURATION_MS <= RecoveryHorizon * SHADOW_DURATION_MS
  /\ now' = now + SHADOW_DURATION_MS

----------------------------------------------------------------------
(* The v15 driver: one signal per cycle, the best of all pairs             *)

\* const MIN_PAYOUT_PERCENT = 80
MIN_PAYOUT_PERCENT == 80
\* Object.keys(pairWarmupComplete), in insertion order
PairOrder == <<"EUR/USD_OTC", "GBP/USD_OTC", "AUD/USD_OTC">>
RankedPairs == {PairOrder[i] : i \in 1..Len(PairOrder)}

\* generateSignalCandidateForPair(pair) returned null
NoCandidate == [action |-> "null", confidence |-> 0, duration |-> 0]

\* the for loop: the candidates pushed, in key order, each with its payout
PassesFilters(offers, pair) ==
  /\ pair \in DOMAIN pairWarmupComplete
  /\ pairWarmupComplete[pair]
  /\ offers[pair].payout >= MIN_PAYOUT_PERCENT
  /\ offers[pair].candidate # NoCandidate
  /\ ~(offers[pair].candidate.confidence < MIN_CONFIDENCE_PERCENT)
Wrapped(offers, pair) ==
  [pair |-> pair, confidence |-> offers[pair].candidate.confidence,
   duration |-> offers[pair].candidate.duration, action |-> offers[pair].candidate.action,
   payout |-> offers[pair].payout]
RECURSIVE CandidatesUpTo(_, _)
CandidatesUpTo(offers, n) ==
  IF n = 0 THEN <<>>
  ELSE IF PassesFilters(offers, PairOrder[n])
       THEN Append(CandidatesUpTo(offers, n - 1), Wrapped(offers, PairOrder[n]))
       ELSE CandidatesUpTo(offers, n - 1)

\* the comparator of candidates.sort: negative when a goes first
CompareIgnoringPayout(a, b) ==
  IF b.confidence # a.confidence THEN b.confidence - a.confidence
  ELSE a.duration - b.duration
Compare(a, b) ==
  IF b.confidence # a.confidence THEN b.confidence - a.confidence
  ELSE IF b.payout # a.payout THEN b.payout - a.payout
  ELSE a.duration - b.duration
\* candidates.sort(...): a stable sort, by insertion
RECURSIVE InsertSorted(_, _)
InsertSorted(sorted, x) ==
  IF sorted = <<>> THEN <<x>>
  ELSE IF Compare(x, sorted[Len(sorted)]) < 0
       THEN Append(InsertSorted(SubSeq(sorted, 1, Len(sorted) - 1), x), sorted[Len(sorted)])
       ELSE Append(sorted, x)
RECURSIVE SortCandidates(_, _)
SortCandidates(cands, n) ==
  IF n = 0 THEN <<>> ELSE InsertSorted(SortCandidates(cands, n - 1), cands[n])

\* generateBestSignalAcrossAllPairs(); offers: for each pair the payout read
\* from the page and what generateSignalCandidateForPair returns for it
RecordBest(best, save, publishOk) ==
  RecordSignal(best.pair,
               NewSignal(best.pair, best.action, best.confidence, best.duration,
                         LastPriceOf(best.pair)),
               save, publishOk)
GenerateBestSignalAcrossAllPairs(offers, save, publishOk) ==
  /\ IF CandidatesUpTo(offers, Len(PairOrder)) = <<>>
     THEN UNCHANGED <<lifeVars, emitted>>
     ELSE /\ emitted' = offers
          /\ RecordBest(SortCandidates(CandidatesUpTo(offers, Len(PairOrder)),
                                       Len(CandidatesUpTo(offers, Len(PairOrder))))[1],
                        save, publishOk)
  /\ UNCHANGED <<pairEngineStates, stalled, justCalled, fed>>

\* what a cycle can meet
PayoutValues == {MIN_PAYOUT_PERCENT - 1, MIN_PAYOUT_PERCENT, 92}
CandidateValues ==
  {NoCandidate} \cup
  {[action |-> "BUY", confidence |-> c, duration |-> d] : c \in ConfidenceValues, d \in {1, 5}}
Offers == [RankedPairs -> [payout : PayoutValues, candidate : CandidateValues]]

----------------------------------------------------------------------
(* The sweep wick ratio of the SMC library, called on its own              *)

\* SMC_CONFIG.SWEEP_WICK_RATIO (0.45), in hundredths
SWEEP_WICK_RATIO == 45
SMC_ATR_PERIOD == 14

\* Math.max(h - l, Math.abs(h - pc), Math.abs(l - pc)) for the candle at i
SmcTrueRange(cs, i) ==
  Max(cs[i].h - cs[i].l, Max(Abs(cs[i].h - cs[i - 1].c), Abs(cs[i].l - cs[i - 1].c)))
RECURSIVE SmcPower(_, _)
SmcPower(b, e) == IF e = 0 THEN 1 ELSE b * SmcPower(b, e - 1)
\* trSum: the true ranges of the candles 2..n added up
RECURSIVE SmcTrueRangeSum(_, _)
SmcTrueRangeSum(cs, n) ==
  IF n < 2 THEN 0 ELSE SmcTrueRange(cs, n) + SmcTrueRangeSum(cs, n - 1)
\* currentAtr after the candles 1..n, as a numerator over 14^(n - 14): the
\* average of the first 14 true ranges, then tr / 14 + currentAtr * 13 / 14
RECURSIVE SmcAtrNumerator(_, _)
SmcAtrNumerator(cs, n) ==
  IF n = SMC_ATR_PERIOD + 1
  THEN SmcTrueRangeSum(cs, n)
  ELSE SmcTrueRange(cs, n) * SmcPower(SMC_ATR_PERIOD, n - SMC_ATR_PERIOD - 1)
       + (SMC_ATR_PERIOD - 1) * SmcAtrNumerator(cs, n - 1)
\* calculateATR(candles, 14): the object it returns (mean and ratio are not
\* read by getDynamicSweepWickRatio)
SmcCalculateATR(cs) ==
  IF Len(cs) < SMC_ATR_PERIOD + 1
  THEN [kind |-> "object", current |-> [num |-> 0, den |-> 1]]
  ELSE [kind |-> "object",
        current |-> [num |-> SmcAtrNumerator(cs, Len(cs)),
                     den |-> SmcPower(SMC_ATR_PERIOD, Len(cs) - SMC_ATR_PERIOD)]]

\* the number an operand of / is converted to: NaN for an object
ToNumber(v) == IF v.kind = "object" THEN NaN ELSE v
\* (atr / avgPrice) * 100 with avgPrice = (lastCandle.h + lastCandle.l) / 2
AtrPercent(atr, lastCandle) ==
  IF ToNumber(atr) = NaN THEN NaN
  ELSE [kind |-> "num", num |-> 200 * atr.num, den |-> (lastCandle.h + lastCandle.l) * atr.den]
\* x > n / d; every comparison with NaN is false
GreaterThan(x, n, d) == x # NaN /\ x.num * d > n * x.den
\* getDynamicSweepWickRatio(candles), in hundredths
GetDynamicSweepWickRatio(cs) ==
  IF Len(cs) = 0 THEN SWEEP_WICK_RATIO
  ELSE IF GreaterThan(AtrPercent(SmcCalculateATR(cs), cs[Len(cs)]), 1, 10) THEN 40
  ELSE IF GreaterThan(AtrPercent(SmcCalculateATR(cs), cs[Len(cs)]), 5, 100) THEN 50
  ELSE 60

\* histories at 1.1000 (in pips) whose candles all have the same range, and
\* the candles appended to them
RangedPrice == 11000
RangeValues == {0, 4, 6, 8, 12, 15}
Ranged(r) == [o |-> RangedPrice, h |-> RangedPrice + r, l |-> RangedPrice, c |-> RangedPrice]
RangedHistory(r) == [i \in 1..(SMC_ATR_PERIOD + 1) |-> Ranged(r)]
MaxRanged == 2
RangedAppend(r) ==
  /\ Len(candles) < SMC_ATR_PERIOD + 1 + MaxRanged
  /\ candles' = Append(candles, Ranged(r))
  /\ engOut' = [kind |-> "none"]
  /\ UNCHANGED <<libs, v12Out, engine, engState, lastTick>>
SweepRatioCall ==
  /\ engOut' = [kind |-> "ratio", ratio |-> GetDynamicSweepWickRatio(candles)]
  /\ UNCHANGED <<candles, libs, v12Out, engine, engState, lastTick>>

----------------------------------------------------------------------
(* detectRSIDivergence of the indicator library, called on its own         *)

\* the offset and the default lookback
MIN_LOOKBACK_OFFSET == 3
DIVERGENCE_LOOKBACK == 10

\* the index (from 0) the scan leaves in priceMinIdx, ...: the first position
\* of the extreme value of the window
FirstIndexOf(window, value) == (CHOOSE i \in 1..Len(window) :
                                  window[i] = value /\ \A j \in 1..(i - 1) : window[j] # value) - 1
SeqValues(window) == {window[i] : i \in 1..Len(window)}
\* Math.round(Math.min(100, Math.abs(priceChange * 10) + rsiChange)), priceChange a
\* percentage of extreme
DivergenceStrength(extreme, currentPrice, rsiChange) ==
  IF ~(extreme > 0) THEN 0
  ELSE IF 1000 * Abs(extreme - currentPrice) + rsiChange * extreme >= 100 * extreme THEN 100
  ELSE (2 * (1000 * Abs(extreme - currentPrice) + rsiChange * extreme) + extreme)
         \div (2 * extreme)
NoDivergence == [bullish |-> FALSE, bearish |-> FALSE, strength |-> 0]
DivergenceOf(recentPrices, recentRSI) ==
  LET n == Len(recentPrices)
      priceMin == SetMin(SeqValues(recentPrices))
      priceMax == SetMax(SeqValues(recentPrices))
      rsiMin == SetMin(SeqValues(recentRSI))
      rsiMax == SetMax(SeqValues(recentRSI))
      currentPrice == recentPrices[n]
      currentRSI == recentRSI[n]
      bullish == /\ currentPrice < priceMin
                 /\ FirstIndexOf(recentPrices, priceMin) < n - MIN_LOOKBACK_OFFSET
                 /\ currentRSI > rsiMin
                 /\ FirstIndexOf(recentRSI, rsiMin) < n - MIN_LOOKBACK_OFFSET
      bearish == /\ currentPrice > priceMax
                 /\ FirstIndexOf(recentPrices, priceMax) < n - MIN_LOOKBACK_OFFSET
                 /\ currentRSI < rsiMax
                 /\ FirstIndexOf(recentRSI, rsiMax) < n - MIN_LOOKBACK_OFFSET
  IN  [bullish |-> bullish, bearish |-> bearish,
       strength |-> IF bearish THEN DivergenceStrength(priceMax, currentPrice, rsiMax - currentRSI)
                    ELSE IF bullish
                    THEN DivergenceStrength(priceMin, currentPrice, currentRSI - rsiMin)
                    ELSE 0]
\* detectRSIDivergence(prices, rsiValues, lookback)
DetectRSIDivergence(prices, rsiValues, lookback) ==
  IF Len(prices) = 0 \/ Len(rsiValues) = 0 THEN NoDivergence
  ELSE IF Len(prices) # Len(rsiValues) THEN NoDivergence
  ELSE IF Len(prices) < lookback THEN NoDivergence
  ELSE DivergenceOf(LastN(prices, lookback), LastN(rsiValues, lookback))

\* the series passed: closes and RSI values, bar by bar (kept in candles)
SeriesPrices == [i \in 1..Len(candles) |-> candles[i].c]
SeriesRSI == [i \in 1..Len(candles) |-> candles[i].rsi]
Bar(price, rsi) == [c |-> price, rsi |-> rsi]
BarPrices == {1, 2, 3}
BarRSI == {30, 50, 70}
\* seven quiet bars, the fourth of them with the RSI at r
QuietSeries(r) == [i \in 1..7 |-> Bar(2, IF i = 4 THEN r ELSE 50)]
MaxBars == 3
BarAppend(price, rsi) ==
  /\ Len(candles) < 7 + MaxBars
  /\ candles' = Append(candles, Bar(price, rsi))
  /\ engOut' = [kind |-> "none"]
  /\ UNCHANGED <<libs, v12Out, engine, engState, lastTick>>
DivergenceCall ==
  /\ engOut' = [kind |-> "divergence",
                result |-> DetectRSIDivergence(SeriesPrices, SeriesRSI, DIVERGENCE_LOOKBACK)]
  /\ UNCHANGED <<candles, libs, v12Out, engine, engState, lastTick>>

----------------------------------------------------------------------
(* calculateBQI of the SMC library, called on its own.  Prices are in      *)
(* points, so the fallback 0.00001 of a zero range is one point            *)

\* the sum of the ranges of the last 5 candles of previousCandles
BqiRangeSum(previousCandles) ==
  SumRange([i \in 1..5 |-> LastN(previousCandles, 5)[i].h - LastN(previousCandles, 5)[i].l], 1, 5)
\* x || 0.00001
OrOnePoint(x) == IF x = 0 THEN 1 ELSE x
\* Math.round(body / range * 60 + sNum / sDen)
BqiRound(body, range, sNum, sDen) ==
  (2 * (60 * body * sDen + sNum * range) + range * sDen) \div (2 * range * sDen)
\* the size term sizeMultiplier * 10 as the fraction sNum / sDen, where
\* sizeMultiplier = totalRange / (avgRange || 0.00001) and avgRange = sum5 / 5
BqiSizeNum(totalRange, sum5) == IF sum5 = 0 THEN 10 * totalRange ELSE 50 * totalRange
BqiSizeDen(sum5) == OrOnePoint(sum5)
BqiQuality(body, totalRange, sNum, sDen) ==
  IF sNum >= 40 * sDen THEN BqiRound(body, OrOnePoint(totalRange), 40, 1)
  ELSE BqiRound(body, OrOnePoint(totalRange), sNum, sDen)
\* the quality without the cap Math.min(40, ...) on the size term
CalculateBQIUncapped(candle, previousCandles) ==
  IF candle = NullCandle \/ Len(previousCandles) < 5 THEN 0
  ELSE BqiRound(Abs(candle.c - candle.o), OrOnePoint(candle.h - candle.l),
                BqiSizeNum(candle.h - candle.l, BqiRangeSum(previousCandles)),
                BqiSizeDen(BqiRangeSum(previousCandles)))
\* calculateBQI(candle, previousCandles)
CalculateBQI(candle, previousCandles) ==
  IF candle = NullCandle \/ Len(previousCandles) < 5 THEN 0
  ELSE BqiQuality(Abs(candle.c - candle.o), candle.h - candle.l,
                  BqiSizeNum(candle.h - candle.l, BqiRangeSum(previousCandles)),
                  BqiSizeDen(BqiRangeSum(previousCandles)))

\* the candles appended: the shapes of the fixed-scoring engine's histories
\* and a candle that is all body
BqiShapes == {"flat", "up", "hammer", "star", "marubozu", "wide"}
BqiShaped(shape, p) ==
  CASE shape = "marubozu" -> [o |-> p, h |-> p + 30, l |-> p, c |-> p + 30]
    [] shape = "wide" -> [o |-> p, h |-> p + 200, l |-> p - 200, c |-> p + 10]
    [] OTHER -> Shaped(shape, p)
BqiLengths == {4, 5}
MaxBqiAppended == 3
BqiAppend(shape) ==
  /\ \E n \in BqiLengths : n <= Len(candles) /\ Len(candles) < n + MaxBqiAppended
  /\ candles' = Append(candles, BqiShaped(shape, candles[Len(candles)].c))
  /\ engOut' = [kind |-> "none"]
  /\ UNCHANGED <<libs, v12Out, engine, engState, lastTick>>
\* calculateBQI(lastCandle, candles.slice(0, -1)), as detectMarketStructure calls it
BqiCall ==
  /\ engOut' = [kind |-> "bqi",
                bqi |-> CalculateBQI(candles[Len(candles)], SubSeq(candles, 1, Len(candles) - 1))]
  /\ UNCHANGED <<candles, libs, v12Out, engine, engState, lastTick>>

----------------------------------------------------------------------
(* calculateRSI of the indicator library, called on its own.  The averages *)
(* avgGain and avgLoss are kept as numerators over the common denominator  *)
(* period^k, and every value returned as the fraction the code computes    *)

Frac(n, d) == [num |-> n, den |-> d]
FracAdd(x, y) == Frac(x.num * y.den + y.num * x.den, x.den * y.den)
FracSub(x, y) == Frac(x.num * y.den - y.num * x.den, x.den * y.den)
FracDiv(x, y) == Frac(x.num * y.den, x.den * y.num)
\* if (diff > 0) gains += diff; else losses -= diff;
RsiGain(diff) == IF diff > 0 THEN diff ELSE 0
RsiLossSigned(diff) == IF diff > 0 THEN 0 ELSE diff
RsiLoss(diff) == IF diff > 0 THEN 0 ELSE 0 - diff
\* avgLoss === 0 ? 100 : 100 - (100 / (1 + (avgGain / avgLoss)))
RsiValue(avgGain, avgLoss) ==
  IF avgLoss = 0 THEN Frac(100, 1)
  ELSE FracSub(Frac(100, 1), FracDiv(Frac(100, 1), FracAdd(Frac(1, 1), Frac(avgGain, avgLoss))))
\* the second loop from index i (from 1): scale is the common denominator of
\* the averages before the step
RECURSIVE RsiLoop(_, _, _, _, _, _)
RECURSIVE RsiStep(_, _, _, _, _, _)
RsiStep(data, period, i, avgGain, avgLoss, scale) ==
  <<RsiValue(avgGain, avgLoss)>> \o RsiLoop(data, period, i + 1, avgGain, avgLoss, scale)
RsiLoop(data, period, i, avgGain, avgLoss, scale) ==
  IF i > Len(data) THEN <<>>
  ELSE RsiStep(data, period, i,
               avgGain * (period - 1) + RsiGain(data[i] - data[i - 1]) * scale,
               avgLoss * (period - 1) + RsiLoss(data[i] - data[i - 1]) * scale,
               scale * period)
\* gains and losses of the first loop
RsiFirstGains(data, period) ==
  SumRange([i \in 1..Len(data) |-> IF i = 1 THEN 0 ELSE RsiGain(data[i] - data[i - 1])], 2, period)
RsiFirstLosses(data, period) ==
  SumRange([i \in 1..Len(data) |-> IF i = 1 THEN 0 ELSE RsiLoss(data[i] - data[i - 1])], 2, period)
\* calculateRSI(data, period): null, or the values from index period - 1 on
RsiNull == [isNull |-> TRUE, values |-> <<>>]
CalculateRSI(data, period) ==
  IF Len(data) = 0 \/ Len(data) < period THEN RsiNull
  ELSE [isNull |-> FALSE,
        values |-> RsiStep(data, period, period, RsiFirstGains(data, period),
                           RsiFirstLosses(data, period), period)]

\* histories of 13 closes and of one close, and the closes appended to them
RsiBases ==
  {<<[c |-> 10]>>,
   [i \in 1..13 |-> [c |-> 10]],
   [i \in 1..13 |-> [c |-> i]],
   [i \in 1..13 |-> [c |-> 20 - i]],
   [i \in 1..13 |-> [c |-> IF i % 2 = 0 THEN 12 ELSE 9]]}
RsiCloses == {1, 10, 20}
RsiPeriods == {1, 2, 14}
MaxCloses == 3
RsiAppend(close) ==
  /\ \E n \in {1, 13} : n <= Len(candles) /\ Len(candles) < n + MaxCloses
  /\ candles' = Append(candles, [c |-> close])
  /\ engOut' = [kind |-> "none"]
  /\ UNCHANGED <<libs, v12Out, engine, engState, lastTick>>
\* tech.calculateRSI(candles.map(c => c.c), period)
RsiCall(period) ==
  /\ engOut' = [kind |-> "rsi", period |-> period,
                result |-> CalculateRSI([i \in 1..Len(candles) |-> candles[i].c], period)]
  /\ UNCHANGED <<candles, libs, v12Out, engine, engState, lastTick>>

----------------------------------------------------------------------
(* findSwingPoints of the SMC library, called on a candle array and on the *)
(* array with the roles of high and low swapped                            *)

FindSwingPoints(cs, lookback) ==
  [swingHighs |-> SwingHighs(cs, lookback), swingLows |-> SwingLows(cs, lookback)]
\* the candles mirrored at the price 2 * 1.1000: each high becomes a low
MirrorPivot == 2 * FlatPrice
Mirrored(cs) ==
  [i \in 1..Len(cs) |-> [o |-> MirrorPivot - cs[i].o, h |-> MirrorPivot - cs[i].l,
                         l |-> MirrorPivot - cs[i].h, c |-> MirrorPivot - cs[i].c]]
SwingLength == 3
SwingAppend(shape) ==
  /\ Len(candles) < SwingLength + MaxAppended
  /\ candles' = Append(candles, Shaped(shape, candles[Len(candles)].c))
  /\ engOut' = [kind |-> "none"]
  /\ UNCHANGED <<libs, v12Out, engine, engState, lastTick>>
\* findSwingPoints(candles, lookback) and findSwingPoints(mirrored, lookback)
SwingCall(lookback) ==
  /\ engOut' = [kind |-> "swing", lookback |-> lookback,
                points |-> FindSwingPoints(candles, lookback),
                mirrored |-> FindSwingPoints(Mirrored(candles), lookback)]
  /\ UNCHANGED <<candles, libs, v12Out, engine, engState, lastTick>>

----------------------------------------------------------------------
(* ProjectNexus.processMarketSnapshot called on its own, as                *)
(* validate_omni.js calls it.  The engine's file is not among the sources: *)
(* the direction cascade, the ghost inversion and the selection of the     *)
(* highest score follow the description of the cross-instrument ranking    *)
(* generation.  What the engine computes from the candles (the levels of   *)
(* the cascade, the score, the currency bias, the shadow win rate being    *)
(* poor) is an input of the call                                           *)

NoDirection == "NONE"
\* the colour of the last candle; the default of a candle that closes where it
\* opened is not described: either direction
CandleColor(candle) ==
  IF candle.c > candle.o THEN {"BUY"}
  ELSE IF candle.c < candle.o THEN {"SELL"}
  ELSE Actions
\* the cascade: trend and zone in agreement, then momentum, then the zone
\* alone, then the raw trend, then the colour of the last candle
CascadeWithoutColor(setup, lastCandle) ==
  IF setup.trendZone # NoDirection THEN {setup.trendZone}
  ELSE IF setup.momentum # NoDirection THEN {setup.momentum}
  ELSE IF setup.zone # NoDirection THEN {setup.zone}
  ELSE IF setup.trend # NoDirection THEN {setup.trend}
  ELSE {}
Cascade(setup, lastCandle) ==
  IF setup.trendZone # NoDirection THEN {setup.trendZone}
  ELSE IF setup.momentum # NoDirection THEN {setup.momentum}
  ELSE IF setup.zone # NoDirection THEN {setup.zone}
  ELSE IF setup.trend # NoDirection THEN {setup.trend}
  ELSE CandleColor(lastCandle)
Inverse(action) == IF action = "BUY" THEN "SELL" ELSE "BUY"
\* the direction, inverted when the instrument's shadow win rate is poor
NexusDirections(data) ==
  {IF data.setup.inverted THEN Inverse(a) ELSE a :
     a \in Cascade(data.setup, data.candles[Len(data.candles)])}
\* the instruments that have candle history
WithHistory(allPairsData) == {p \in DOMAIN allPairsData : Len(allPairsData[p].candles) > 0}
\* the instruments of the highest score, and of the strongest bias among them
HighestScore(allPairsData, S) ==
  {p \in S : \A q \in S : allPairsData[q].setup.score <= allPairsData[p].setup.score}
StrongestBias(allPairsData, S) ==
  {p \in S : \A q \in S : allPairsData[q].setup.bias <= allPairsData[p].setup.bias}
NexusWinners(allPairsData) ==
  StrongestBias(allPairsData, HighestScore(allPairsData, WithHistory(allPairsData)))
NexusResults(allPairsData, expiryMinutes) ==
  UNION {{[pair |-> p, action |-> a, spi |-> allPairsData[p].setup.score,
           tradeDuration |-> expiryMinutes] : a \in NexusDirections(allPairsData[p])} :
         p \in NexusWinners(allPairsData)}
\* processMarketSnapshot(allPairsData, expiryMinutes, globalStrength): the
\* results it can return
NexusProcessMarketSnapshot(allPairsData, expiryMinutes) ==
  IF NexusResults(allPairsData, expiryMinutes) = {} THEN {NoResult}
  ELSE NexusResults(allPairsData, expiryMinutes)

\* the candles fed and the setups observed
SnapshotCandles == {[o |-> 1, c |-> 1], [o |-> 1, c |-> 2], [o |-> 2, c |-> 1]}
NeutralSetup(score, bias) ==
  [trendZone |-> NoDirection, momentum |-> NoDirection, zone |-> NoDirection,
   trend |-> NoDirection, inverted |-> FALSE, score |-> score, bias |-> bias]
SetupValues ==
  {NeutralSetup(s, b) : s \in {40, 65}, b \in {0, 1}} \cup
  {[NeutralSetup(65, 0) EXCEPT !.trend = "SELL"],
   [NeutralSetup(65, 0) EXCEPT !.zone = "BUY", !.trend = "SELL"],
   [NeutralSetup(40, 1) EXCEPT !.momentum = "SELL", !.zone = "BUY"],
   [NeutralSetup(40, 0) EXCEPT !.trendZone = "BUY", !.momentum = "SELL", !.inverted = TRUE]}
MaxSnapshotCandles == 1
SnapshotFeed(pair, candle) ==
  /\ pair \in DOMAIN pairOhlcM1 => Len(pairOhlcM1[pair]) < MaxSnapshotCandles
  /\ pairOhlcM1' = [p \in DOMAIN pairOhlcM1 \cup {pair} |->
                      IF p = pair
                      THEN (IF p \in DOMAIN pairOhlcM1 THEN Append(pairOhlcM1[p], candle)
                            ELSE <<candle>>)
                      ELSE pairOhlcM1[p]]
  /\ engOut' = [kind |-> "none"]
\* a pair is given with no candles yet
SnapshotTrack(pair) ==
  /\ pair \notin DOMAIN pairOhlcM1
  /\ pairOhlcM1' = [p \in DOMAIN pairOhlcM1 \cup {pair} |->
                      IF p = pair THEN <<>> ELSE pairOhlcM1[p]]
  /\ engOut' = [kind |-> "none"]
SnapshotGiven(setups) ==
  [p \in DOMAIN pairOhlcM1 |-> [candles |-> pairOhlcM1[p], setup |-> setups[p]]]
SnapshotCall(setups, result) ==
  /\ result \in NexusProcessMarketSnapshot(SnapshotGiven(setups), tradeDurationMinutes)
  /\ engOut' = [kind |-> "snapshot", given |-> SnapshotGiven(setups), result |-> result]
  /\ UNCHANGED pairOhlcM1

----------------------------------------------------------------------
(* The v15 driver's signal generation with the engine calls it makes       *)

\* the state after construction and warmup of the pairs ps, at Date.now() = ts
InitCycle(ps, ts) ==
  /\ ring = NewBuffer(Capacity)
  /\ inserted = <<>>
  /\ now = ts
  /\ pairBuffers = EmptyMap
  /\ pairOhlcM1 = EmptyMap
  /\ pairLastPrices = [p \in ps |-> 1]
  /\ pairWarmupComplete = [p \in ps |-> TRUE]
  /\ warmupCandlesCount = DefaultWarmup
  /\ candleCount = [p \in ps |-> DefaultWarmup]
  /\ latestOpenTime = [p \in ps |-> ts - 60000]
  /\ tradeDurationMinutes = DefaultDuration
  /\ signals = <<>>
  /\ signalHistory = <<>>
  /\ mostRecentSignal = 0
  /\ pairLastSignals = [p \in ps |-> NoSignal]
  /\ timers = {}
  /\ totalSignals = 0 /\ winningSignals = 0 /\ losingSignals = 0
  /\ highConfSignals = 0 /\ highConfWins = 0 /\ highConfLosses = 0
  /\ consecutiveLossesCount = 0
  /\ signalIntervalMinutes = DefaultInterval
  /\ lastSignalTriggeredAtMinute = -1
  /\ generationCalls = <<>>
  /\ pairEngineStates = EmptyMap
  /\ emitted = EmptyMap
  /\ stalled = EmptyMap
  /\ justCalled = "none"
  /\ fed = NotFed
  /\ candles = <<>>
  /\ libs = AllLibs
  /\ v12Out = V12NotCalled
  /\ engine = "V12"
  /\ engState = [status |-> "null"]
  /\ engOut = [kind |-> "none"]
  /\ lastTick = NoTick

\* the pairs the for loop calls generateSignalCandidateForPair for
CycleCalled(payouts) ==
  {p \in DOMAIN pairWarmupComplete \cap DOMAIN payouts :
     pairWarmupComplete[p] /\ payouts[p] >= MIN_PAYOUT_PERCENT}

\* tradeDuration of the signal each path of V14Engine builds
V14SignalDuration(signal, ctx, conf) ==
  IF signal.reason = "Velocity Strike" THEN 2
  ELSE IF signal.reason \in {"FastTrack Entry", "Sequence Complete"}
  THEN IF conf <= 48 THEN 3 ELSE IF ctx.marketPhase = "EXPANSION" THEN 5 ELSE 3
  ELSE 3

\* what generateSignalCandidateForPair(pair) returns, from the engine's output
CycleCandidate(pair, out, obs, ctx) ==
  IF out.signal = NoEngineSignal THEN NoCandidate
  ELSE [action |-> out.signal.action,
        confidence |-> V14SignalConfidence(out.signal, EngineStateOf(pair), obs, ctx),
        duration |-> V14SignalDuration(out.signal, ctx,
                       V14SignalConfidence(out.signal, EngineStateOf(pair), obs, ctx))]

\* the offers the for loop of generateBestSignalAcrossAllPairs works with
CycleOffers(payouts, obsOf, ctxOf) ==
  [p \in RankedPairs |->
     [payout |-> IF p \in DOMAIN payouts THEN payouts[p] ELSE 0,
      candidate |-> IF p \in CycleCalled(payouts)
                    THEN CycleCandidate(p, EngineOutput(p, obsOf[p]), obsOf[p], ctxOf[p])
                    ELSE NoCandidate]]

\* "Persist state" of every call the cycle makes
CyclePersisted(payouts, obsOf) ==
  [p \in DOMAIN pairEngineStates \cup
         {q \in CycleCalled(payouts) : EngineOutput(q, obsOf[q]).updatedState.status # "null"} |->
     IF p \in CycleCalled(payouts) /\ EngineOutput(p, obsOf[p]).updatedState.status # "null"
     THEN EngineOutput(p, obsOf[p]).updatedState
     ELSE pairEngineStates[p]]

\* generateBestSignalAcrossAllPairs(): the engine calls, the filters, the
\* ranking and recordSignal
BestSignalCycle(payouts, obsOf, ctxOf, save, publishOk) ==
  /\ pairEngineStates' = CyclePersisted(payouts, obsOf)
  /\ IF CandidatesUpTo(CycleOffers(payouts, obsOf, ctxOf), Len(PairOrder)) = <<>>
     THEN UNCHANGED <<lifeVars, emitted>>
     ELSE /\ emitted' = CycleOffers(payouts, obsOf, ctxOf)
          /\ RecordBest(SortCandidates(
                          CandidatesUpTo(CycleOffers(payouts, obsOf, ctxOf), Len(PairOrder)),
                          Len(CandidatesUpTo(CycleOffers(payouts, obsOf, ctxOf),
                                             Len(PairOrder))))[1],
                        save, publishOk)
  /\ UNCHANGED <<stalled, justCalled, fed>>

\* what a cycle can meet for a pair
CyclePairs == {PairOrder[1], PairOrder[2]}
CycleHorizon == 2
CycleObservations ==
  {QuietObs, [QuietObs EXCEPT !.vStrike = "BUY"], [QuietObs EXCEPT !.sniper = "SELL"],
   [QuietObs EXCEPT !.kind = "sweep"], [QuietObs EXCEPT !.hybrid = TRUE]}
CyclePayouts == [CyclePairs -> {MIN_PAYOUT_PERCENT - 1, MIN_PAYOUT_PERCENT}]
CycleClock ==
  /\ now + 60000 <= EngineEpoch + CycleHorizon * 60000
  /\ now' = now + 60000
  /\ UNCHANGED <<pairBuffers, pairOhlcM1, pairLastPrices, pairWarmupComplete,
                 warmupCandlesCount>>

----------------------------------------------------------------------
(* The Auto Trader: tick() with readPSFeed, the priority buffer, pickSignal *)
(* and the duplicate check.  Its state is held in engState: the content of  *)
(* PS_AT_FEED (feed), __PRIORITY_BUFFER, __PRIORITY_BUFFER_TS, __AT_LAST_EXEC *)
(* (lastExec) and cdMap, with the list of the trades executed so far        *)

PRIORITY_BUFFER_TTL_MS == 45 * 1000
MAX_SIGNAL_AGE_MS == 30 * 1000
COOLDOWN_SEC_DEFAULT == 15
\* Math.max(0, AT_DUP_COOLDOWN_SEC) * 1000, AT_DUP_COOLDOWN_SEC at its default
DUP_COOLDOWN_MS == 60 * 1000
PRIORITY_CONFIDENCE == 70

\* no item in PS_AT_FEED, null in __PRIORITY_BUFFER
NoTraderSignal ==
  [pair |-> "none", action |-> "none", minutes |-> 0, confidence |-> 0, timestamp |-> 0]
NewTrader ==
  [feed |-> NoTraderSignal, priorityBuffer |-> NoTraderSignal, priorityBufferTs |-> 0,
   lastExec |-> EmptyMap, cdMap |-> EmptyMap, trades |-> <<>>]

\* map[key] || 0
OrZero(map, key) == IF key \in DOMAIN map THEN map[key] ELSE 0

\* canTrade(sym), at the default cooldown
CanTrade(cdMap, sym, ts) == (ts - OrZero(cdMap, sym)) >= COOLDOWN_SEC_DEFAULT * 1000

\* readPSFeed(): the signals read are [feed]; a best signal of confidence 70
\* or more goes into the priority buffer
BufferAfterRead(t, ts) ==
  IF t.feed # NoTraderSignal /\ t.feed.confidence >= PRIORITY_CONFIDENCE
  THEN [t EXCEPT !.priorityBuffer = t.feed, !.priorityBufferTs = ts]
  ELSE t

\* pickSignal([it], thr): the item when it is valid and fresh, else null
PickSignal(it, thr, ts) ==
  IF /\ it # NoTraderSignal
     /\ it.minutes >= 1 /\ it.minutes <= 15
     /\ it.action \in {"BUY", "SELL"}
     /\ it.confidence >= thr
     /\ it.timestamp > 0 /\ ts - it.timestamp <= MAX_SIGNAL_AGE_MS
  THEN it ELSE NoTraderSignal

\* `${sigPair}_${sig.action}_${sig.minutes}`
SigKey(sig) == <<sig.pair, sig.action, sig.minutes>>

\* the duplicate check of the fresh path
IsDuplicate(lastExec, sig, ts) == ts - OrZero(lastExec, SigKey(sig)) < DUP_COOLDOWN_MS

\* the try block: executeTrade, markTrade, __AT_LAST_EXEC[sigKey] = Date.now()
Executed(t, sig, ts, execOk) ==
  IF execOk
  THEN [t EXCEPT !.cdMap = Put(t.cdMap, sig.pair, ts),
                 !.lastExec = Put(t.lastExec, SigKey(sig), ts),
                 !.trades = Append(t.trades, [key |-> SigKey(sig), at |-> ts,
                                              conf |-> sig.confidence])]
  ELSE t

\* the priority buffer holds a signal tick() takes
BufferTaken(t, thr, ts) ==
  /\ t.priorityBuffer # NoTraderSignal
  /\ (ts - t.priorityBufferTs) < PRIORITY_BUFFER_TTL_MS
  /\ t.priorityBuffer.confidence >= thr
  /\ PickSignal(t.priorityBuffer, thr, ts) # NoTraderSignal
Cleared(t) == [t EXCEPT !.priorityBuffer = NoTraderSignal, !.priorityBufferTs = 0]

\* tick() of an active trader past its safety stops and strategy filters, from
\* the symbol check on; t: the state after readPSFeed()
TickAfterRead(t, thr, execOk) ==
  IF BufferTaken(t, thr, now)
  THEN engState' = Executed(Cleared(t), t.priorityBuffer, now, execOk)
  ELSE IF \/ PickSignal(t.feed, thr, now) = NoTraderSignal
          \/ IsDuplicate(t.lastExec, t.feed, now)
  THEN engState' = t
  ELSE engState' = Executed(t, t.feed, now, execOk)
TraderTick(thr, execOk) ==
  /\ IF \/ engState.feed = NoTraderSignal
        \/ ~CanTrade(engState.cdMap, engState.feed.pair, now)
     THEN UNCHANGED engState
     ELSE TickAfterRead(BufferAfterRead(engState, now), thr, execOk)
  /\ UNCHANGED <<candles, libs, v12Out, engine, engOut, lastTick>>

\* publishToAutoTrader(signal) of the signal engine: PS_AT_FEED = {bestSignal}
TraderPublish(action, confidence) ==
  /\ engState' = [engState EXCEPT
                    !.feed = [pair |-> "EUR/USD_OTC", action |-> action, minutes |-> DefaultDuration,
                              confidence |-> confidence, timestamp |-> now]]
  /\ UNCHANGED <<candles, libs, v12Out, engine, engOut, lastTick>>

\* what the trader meets: thresholds, confidences, and a clock in steps of 5 s
TraderThresholds == {60, PRIORITY_CONFIDENCE}
TraderConfidences == {65, PRIORITY_CONFIDENCE}
TraderHorizon == 13
MaxTrades == 2
TraderClock ==
  /\ now + 5 * 1000 <= EngineEpoch + TraderHorizon * 5 * 1000
  /\ now' = now + 5 * 1000
  /\ UNCHANGED <<pairBuffers, pairOhlcM1, pairLastPrices, pairWarmupComplete,
                 warmupCandlesCount>>
InitTrader == InitCallWith(<<>>, AllLibs, "V12", NewTrader)

----------------------------------------------------------------------
(* Specifications                                                          *)

\* the ring buffer alone
NextRing ==
  \/ \E price \in PriceValues : RingAdd(price) /\ UNCHANGED <<callVars, aggVars, histVars, cfgVars, lifeVars, loopVars, engVars>>
  \/ \E price \in PriceValues : RingUpdateLast(price) /\ UNCHANGED <<callVars, aggVars, histVars, cfgVars, lifeVars, loopVars, engVars>>
  \/ RingGetAll /\ UNCHANGED <<callVars, aggVars, histVars, cfgVars, lifeVars, loopVars, engVars>>
SpecRing == Init /\ [][NextRing]_vars

\* the aggregator fed by the tick loop
NextAgg ==
  \/ \E feed \in [FeedPairs -> FeedValues] : TickLoop(feed) /\ UNCHANGED <<callVars, loopVars, engVars, bufVars, histVars, cfgVars, lifeVars>>
  \/ \E d \in ClockSteps : ClockAdvance(d) /\ UNCHANGED <<callVars, loopVars, engVars, bufVars, histVars, cfgVars, lifeVars>>
SpecAgg == Init /\ [][NextAgg]_vars

\* the aggregator fed with everything the parsed feed can hold
NextParsed ==
  \/ \E feed \in [FeedPairs -> ParsedValues] :
       TickLoopObserved(feed)
       /\ UNCHANGED <<candles, libs, v12Out, engine, engState, engOut, loopVars, engVars,
                      bufVars, histVars, cfgVars, lifeVars>>
  \/ \E d \in ClockSteps : ClockAdvance(d) /\ UNCHANGED <<callVars, loopVars, engVars, bufVars, histVars, cfgVars, lifeVars>>
SpecParsed == Init /\ [][NextParsed]_vars

\* the lifecycle manager driven by the tick loop, the signal loop's calls of
\* generateForcedBestSignal, the result timers and the popup's messages
NextLife ==
  \/ \E feed \in [FeedPairs -> FeedValues], shadowWins \in SUBSET FeedPairs :
       CountTickLoop(feed, shadowWins)
       /\ UNCHANGED <<callVars, loopVars, obsVars, bufVars, now, pairBuffers, pairOhlcM1,
                      warmupCandlesCount, cfgVars, signals, signalHistory, mostRecentSignal,
                      timers, totalSignals, winningSignals, losingSignals, highConfSignals,
                      highConfWins, highConfLosses>>
  \/ \E d \in ClockSteps : ClockAdvance(d) /\ UNCHANGED <<callVars, loopVars, engVars, bufVars, histVars, cfgVars, lifeVars>>
  \/ \E n \in ConfigInputs :
       SetWarmup(n)
       /\ UNCHANGED <<callVars, loopVars, engVars, bufVars, now, pairBuffers, pairOhlcM1, pairLastPrices,
                      pairWarmupComplete, histVars, cfgVars, lifeVars>>
  \/ \E n \in ConfigInputs :
       SetDuration(n) /\ UNCHANGED <<callVars, loopVars, engVars, bufVars, aggVars, histVars, lifeVars>>
  \/ \E payoutOk \in SUBSET FeedPairs, a \in Actions, x \in SpiValues,
        p \in FeedPairs \cup {"none"}, save \in SaveOutcomes, publishOk \in BOOLEAN :
       GenerateForcedBestSignal(payoutOk,
          IF p = "none" THEN NoResult
          ELSE [pair |-> p, action |-> a, spi |-> x, tradeDuration |-> tradeDurationMinutes],
          save, publishOk)
       /\ UNCHANGED <<callVars, loopVars, engVars, bufVars, aggVars, histVars, cfgVars>>
  \/ \E tm \in timers, save \in SaveOutcomes :
       TimerFires(tm, save) /\ UNCHANGED <<callVars, loopVars, engVars, bufVars, aggVars, histVars, cfgVars>>
  \/ \E save \in SaveOutcomes :
       ResetHistory(save) /\ UNCHANGED <<callVars, loopVars, obsVars, bufVars, aggVars, histVars, cfgVars>>
SpecLife == Init /\ [][NextLife]_vars

\* recordSignal and finalizeSignal applied to arbitrary signals at arbitrary
\* moments, prices arriving in between
NextFinalize ==
  \/ \E feed \in [FeedPairs -> FeedValues], shadowWins \in SUBSET FeedPairs :
       CountTickLoop(feed, shadowWins)
       /\ UNCHANGED <<callVars, loopVars, obsVars, bufVars, now, pairBuffers, pairOhlcM1,
                      warmupCandlesCount, cfgVars, signals, signalHistory, mostRecentSignal,
                      timers, totalSignals, winningSignals, losingSignals, highConfSignals,
                      highConfWins, highConfLosses>>
  \/ \E p \in FeedPairs, a \in Actions, c \in ConfidenceValues, e \in 0..MaxPrice,
        save \in SaveOutcomes, publishOk \in BOOLEAN :
       CallRecordSignal(p, a, c, e, save, publishOk)
       /\ UNCHANGED <<callVars, loopVars, engVars, bufVars, aggVars, histVars, cfgVars>>
  \/ \E id \in 1..MaxSignals, save \in SaveOutcomes :
       CallFinalizeSignal(id, save) /\ UNCHANGED <<callVars, loopVars, engVars, bufVars, aggVars, histVars, cfgVars>>
SpecFinalize == Init /\ [][NextFinalize]_vars

\* the same, in a session that started from a stored history and stored statistics
SpecRestored ==
  (\E n \in RestoredLengths, k \in 0..MaxRestoredStreak : InitRestored(n, k))
  /\ [][NextFinalize]_vars

\* saveState() called on its own between the ticks of a restored session
NextSave ==
  \/ \E feed \in [FeedPairs -> FeedValues], shadowWins \in SUBSET FeedPairs :
       CountTickLoop(feed, shadowWins)
       /\ UNCHANGED <<callVars, loopVars, obsVars, bufVars, now, pairBuffers, pairOhlcM1,
                      warmupCandlesCount, cfgVars, signals, signalHistory, mostRecentSignal,
                      timers, totalSignals, winningSignals, losingSignals, highConfSignals,
                      highConfWins, highConfLosses>>
  \/ \E save \in SaveOutcomes :
       CallSaveState(save)
       /\ UNCHANGED <<callVars, loopVars, bufVars, aggVars, histVars, cfgVars, pairEngineStates>>
SpecSave ==
  (\E n \in RestoredLengths, k \in 0..MaxRestoredStreak : InitRestored(n, k))
  /\ [][NextSave]_vars

\* the v15 driver's signal generation over pairs that are warm
NextBest ==
  /\ Len(signals) < MaxSignals
  /\ \E offers \in Offers, save \in SaveOutcomes, publishOk \in BOOLEAN :
       GenerateBestSignalAcrossAllPairs(offers, save, publishOk)
       /\ UNCHANGED <<callVars, loopVars, bufVars, aggVars, histVars, cfgVars>>
SpecBest ==
  (\E w \in {RankedPairs, RankedPairs \ {PairOrder[1]}} : InitRestoredWith(0, 0, EmptyMap, w))
  /\ [][NextBest]_vars

\* getDynamicSweepWickRatio on histories of one candle range with a few
\* candles of other ranges appended
NextSweepRatio ==
  \/ \E r \in RangeValues :
       RangedAppend(r)
       /\ UNCHANGED <<bufVars, aggVars, histVars, cfgVars, lifeVars, loopVars, engVars>>
  \/ SweepRatioCall
     /\ UNCHANGED <<bufVars, aggVars, histVars, cfgVars, lifeVars, loopVars, engVars>>
SpecSweepRatio ==
  (\E r \in RangeValues : InitCall(RangedHistory(r), AllLibs, "V12")) /\ [][NextSweepRatio]_vars

\* detectRSIDivergence on series that grow bar by bar
NextDivergence ==
  \/ \E price \in BarPrices, rsi \in BarRSI :
       BarAppend(price, rsi)
       /\ UNCHANGED <<bufVars, aggVars, histVars, cfgVars, lifeVars, loopVars, engVars>>
  \/ DivergenceCall
     /\ UNCHANGED <<bufVars, aggVars, histVars, cfgVars, lifeVars, loopVars, engVars>>
SpecDivergence ==
  (\E r \in BarRSI : InitCall(QuietSeries(r), AllLibs, "V12")) /\ [][NextDivergence]_vars

\* calculateBQI on short histories that grow candle by candle
NextBQI ==
  \/ \E shape \in BqiShapes :
       BqiAppend(shape)
       /\ UNCHANGED <<bufVars, aggVars, histVars, cfgVars, lifeVars, loopVars, engVars>>
  \/ BqiCall
     /\ UNCHANGED <<bufVars, aggVars, histVars, cfgVars, lifeVars, loopVars, engVars>>
SpecBQI ==
  (\E n \in BqiLengths : InitCall(FlatHistory(n), AllLibs, "V12")) /\ [][NextBQI]_vars

\* calculateRSI on series of closes that grow close by close
NextRSI ==
  \/ \E close \in RsiCloses :
       RsiAppend(close)
       /\ UNCHANGED <<bufVars, aggVars, histVars, cfgVars, lifeVars, loopVars, engVars>>
  \/ \E period \in RsiPeriods :
       RsiCall(period)
       /\ UNCHANGED <<bufVars, aggVars, histVars, cfgVars, lifeVars, loopVars, engVars>>
SpecRSI == (\E base \in RsiBases : InitCall(base, AllLibs, "V12")) /\ [][NextRSI]_vars

\* findSwingPoints on short histories that grow candle by candle
NextSwing ==
  \/ \E shape \in Shapes :
       SwingAppend(shape)
       /\ UNCHANGED <<bufVars, aggVars, histVars, cfgVars, lifeVars, loopVars, engVars>>
  \/ \E lookback \in {SWING_LOOKBACK, INDUCEMENT_SWING_LOOKBACK} :
       SwingCall(lookback)
       /\ UNCHANGED <<bufVars, aggVars, histVars, cfgVars, lifeVars, loopVars, engVars>>
SpecSwing ==
  InitCall(FlatHistory(SwingLength), AllLibs, "V12") /\ [][NextSwing]_vars

\* processMarketSnapshot on instruments whose histories grow candle by candle
SnapshotFrame ==
  UNCHANGED <<bufVars, now, pairBuffers, pairLastPrices, pairWarmupComplete, warmupCandlesCount,
              histVars, cfgVars, lifeVars, loopVars, engVars,
              candles, libs, v12Out, engine, engState, lastTick>>
NextSnapshot ==
  \/ \E pair \in Pairs, candle \in SnapshotCandles : SnapshotFeed(pair, candle) /\ SnapshotFrame
  \/ \E pair \in Pairs : SnapshotTrack(pair) /\ SnapshotFrame
  \/ \E setups \in [DOMAIN pairOhlcM1 -> SetupValues] :
       \E result \in NexusProcessMarketSnapshot(SnapshotGiven(setups), tradeDurationMinutes) :
         SnapshotCall(setups, result) /\ SnapshotFrame
SpecSnapshot == InitCall(<<>>, AllLibs, "V12") /\ [][NextSnapshot]_vars

\* the signal loop under its timer, setInterval(signalLoop, 1000): the loop
\* runs at every second of the clock, so the clock moves on only from an
\* instant at which the loop has nothing left to trigger.  SET_INTERVAL
\* messages arrive before the first boundary has triggered.
BoundaryHorizon == 61
BoundaryIntervals == {0, 30, 60}
BoundaryLoop ==
  \E payoutOk \in {FeedPairs} :
    /\ SignalLoop(payoutOk, NoResult, "ok", TRUE)
    /\ UNCHANGED <<callVars, engVars, bufVars, aggVars, histVars, cfgVars>>
BoundaryClock ==
  /\ ~Triggers(GetMinutes(now), GetSeconds(now))
  /\ now + 1000 <= BoundaryHorizon * 60000
  /\ now' = now + 1000
  /\ UNCHANGED <<pairBuffers, pairOhlcM1, pairLastPrices, pairWarmupComplete,
                 warmupCandlesCount>>
  /\ UNCHANGED <<callVars, loopVars, engVars, bufVars, histVars, cfgVars, lifeVars>>
BoundarySetInterval ==
  \E n \in BoundaryIntervals :
    /\ generationCalls = <<>>
    /\ SetInterval(n)
    /\ UNCHANGED <<callVars, lastSignalTriggeredAtMinute, generationCalls, engVars, bufVars,
                   aggVars, histVars, cfgVars, lifeVars>>
NextBoundary == BoundaryLoop \/ BoundaryClock \/ BoundarySetInterval
SpecBoundary ==
  Init /\ [][NextBoundary]_vars /\ WF_vars(BoundaryLoop) /\ WF_vars(BoundaryClock)

\* cycles of the v15 driver over two warm pairs, a minute apart or closer
NextCycle ==
  \/ /\ Len(signals) < MaxSignals
     /\ \E payouts \in CyclePayouts, obsOf \in [CyclePairs -> CycleObservations],
           ctxOf \in [CyclePairs -> Contexts] :
          BestSignalCycle(payouts, obsOf, ctxOf, "ok", TRUE)
     /\ UNCHANGED <<callVars, loopVars, bufVars, aggVars, histVars, cfgVars>>
  \/ CycleClock
     /\ UNCHANGED <<callVars, loopVars, engVars, bufVars, histVars, cfgVars, lifeVars>>
SpecCycle == InitCycle(CyclePairs, EngineEpoch) /\ [][NextCycle]_vars

\* the Auto Trader's loop over a feed the signal engine publishes to
NextTrader ==
  \/ /\ Len(engState.trades) < MaxTrades
     /\ \E thr \in TraderThresholds, execOk \in BOOLEAN : TraderTick(thr, execOk)
     /\ UNCHANGED <<bufVars, aggVars, histVars, cfgVars, lifeVars, loopVars, engVars>>
  \/ \E confidence \in TraderConfidences :
       TraderPublish("BUY", confidence)
       /\ UNCHANGED <<bufVars, aggVars, histVars, cfgVars, lifeVars, loopVars, engVars>>
  \/ TraderClock
     /\ UNCHANGED <<callVars, loopVars, engVars, bufVars, histVars, cfgVars, lifeVars>>
SpecTrader == InitTrader /\ [][NextTrader]_vars

\* the tick loop over learning states that hold an open shadow trade
NextRecovery ==
  \/ \E feed \in [FeedPairs -> FeedValues] :
       TickLoopRecovery(feed)
       /\ UNCHANGED <<callVars, loopVars, obsVars, bufVars, now, pairBuffers, pairOhlcM1,
                      warmupCandlesCount, cfgVars, signals, signalHistory, mostRecentSignal,
                      timers, totalSignals, winningSignals, losingSignals, highConfSignals,
                      highConfWins, highConfLosses>>
  \/ RecoveryClock
     /\ UNCHANGED <<callVars, loopVars, engVars, bufVars, histVars, cfgVars, lifeVars,
                    pairBuffers, pairOhlcM1, pairLastPrices, pairWarmupComplete,
                    warmupCandlesCount>>
SpecRecovery ==
  (\E k \in 0..MaxRestoredStreak, h \in LearntHistories, d \in {"BUY", "SELL"},
      x \in PriceValues : InitRecovery(k, h, d, x))
  /\ [][NextRecovery]_vars

\* the signal loop under the wall clock and the popup's SET_INTERVAL
NextSignalLoop ==
  \/ \E payoutOk \in SUBSET FeedPairs, a \in Actions, x \in SpiValues,
        p \in FeedPairs \cup {"none"}, save \in SaveOutcomes, publishOk \in BOOLEAN :
       SignalLoop(payoutOk,
          IF p = "none" THEN NoResult
          ELSE [pair |-> p, action |-> a, spi |-> x, tradeDuration |-> tradeDurationMinutes],
          save, publishOk)
       /\ UNCHANGED <<callVars, engVars, bufVars, aggVars, histVars, cfgVars>>
  \/ \E d \in LoopClockSteps :
       ClockAdvance(d) /\ UNCHANGED <<callVars, loopVars, engVars, bufVars, histVars, cfgVars, lifeVars>>
  \/ \E n \in IntervalInputs :
       SetInterval(n)
       /\ UNCHANGED <<callVars, lastSignalTriggeredAtMinute, generationCalls, engVars, bufVars, aggVars,
                      histVars, cfgVars, lifeVars>>
SpecSignalLoop == Init /\ [][NextSignalLoop]_vars

\* the engine called on a growing history whose candles never complete a setup
NextTimeout ==
  \/ V15TickLoop(EngineFeed)
     /\ UNCHANGED <<callVars, bufVars, now, pairBuffers, pairOhlcM1, warmupCandlesCount, cfgVars,
                    signals, signalHistory, mostRecentSignal, timers, statVars, loopVars,
                    pairEngineStates>>
  \/ EngineClock(TimeoutHorizon)
     /\ UNCHANGED <<callVars, bufVars, histVars, cfgVars, lifeVars, loopVars, pairEngineStates>>
  \/ \E p \in FeedPairs, obs \in QuietObservations :
       GenerateSignalCandidateForPair(p, obs)
       /\ UNCHANGED <<callVars, bufVars, aggVars, histVars, cfgVars, lifeVars, loopVars>>
SpecTimeout == (\E n \in StartLengths : InitEngine(n)) /\ [][NextTimeout]_vars

\* the engine called with any observation, and the popup's RESET_HISTORY
NextEngine ==
  \/ V15TickLoop(EngineFeed)
     /\ UNCHANGED <<callVars, bufVars, now, pairBuffers, pairOhlcM1, warmupCandlesCount, cfgVars,
                    signals, signalHistory, mostRecentSignal, timers, statVars, loopVars,
                    pairEngineStates>>
  \/ EngineClock(CooldownHorizon)
     /\ UNCHANGED <<callVars, bufVars, histVars, cfgVars, lifeVars, loopVars, pairEngineStates>>
  \/ \E p \in FeedPairs :
       \E obs \in Observations(EngineStateOf(p).status) :
         GenerateSignalCandidateForPair(p, obs)
         /\ UNCHANGED <<callVars, bufVars, aggVars, histVars, cfgVars, lifeVars, loopVars>>
  \/ \E save \in SaveOutcomes :
       V15ResetHistory(save)
       /\ UNCHANGED <<callVars, bufVars, now, pairBuffers, pairOhlcM1, pairLastPrices,
                      pairWarmupComplete, warmupCandlesCount, histVars, cfgVars, loopVars>>
SpecEngine == InitEngine(MinCandles - 1) /\ [][NextEngine]_vars

\* the fixed-scoring engine on flat histories with a few candles appended
FlatLengths == {MIN_CANDLES - 1, 99}
NextV12 ==
  \/ \E shape \in Shapes :
       /\ \E n \in FlatLengths : n <= Len(candles) /\ Len(candles) < n + MaxAppended
       /\ V12Append(shape)
       /\ UNCHANGED <<bufVars, aggVars, histVars, cfgVars, lifeVars, loopVars, engVars>>
  \/ V12Call /\ UNCHANGED <<bufVars, aggVars, histVars, cfgVars, lifeVars, loopVars, engVars>>
SpecV12 == (\E n \in FlatLengths : InitCall(FlatHistory(n), AllLibs, "V12")) /\ [][NextV12]_vars

\* V17Engine and V18Engine called over time with their deep sight computed
NextOracle ==
  \/ \E len \in CallLengths, obs \in OracleObservations, lastClose \in PriceValues :
       OracleCall(len, obs, lastClose)
       /\ UNCHANGED <<bufVars, aggVars, histVars, cfgVars, lifeVars, loopVars, engVars>>
  \/ OracleClock
     /\ UNCHANGED <<callVars, bufVars, pairBuffers, pairOhlcM1, pairLastPrices,
                    pairWarmupComplete, warmupCandlesCount, histVars, cfgVars, lifeVars,
                    loopVars, engVars>>
SpecOracle ==
  (\E e \in {"V17", "V18"} : \E h \in SeasonedHistories(HistoryCap(e = "V18")) : InitOracle(e, h))
  /\ [][NextOracle]_vars

\* every engine called directly, built with every combination of libraries
LibraryCombinations == [indicators : BOOLEAN, smc : BOOLEAN]
StatefulEngines == {"V14", "V17", "V18"}
NextCalls ==
  \/ engine = "V12" /\ NextV12
  \/ \E len \in CallLengths, ctx \in Contexts :
       \E obs \in CallObservations(engState.status) :
         V14EngineCall(len, obs, ctx)
         /\ UNCHANGED <<bufVars, aggVars, histVars, cfgVars, lifeVars, loopVars, engVars>>
  \/ \E len \in CallLengths, obs \in V17Observations :
       V17EngineCall(len, obs)
       /\ UNCHANGED <<bufVars, aggVars, histVars, cfgVars, lifeVars, loopVars, engVars>>
  \/ \E minutes \in {3, 10} :
       engine \in StatefulEngines
       /\ CallClock(minutes)
       /\ UNCHANGED <<callVars, bufVars, pairBuffers, pairOhlcM1, pairLastPrices,
                      pairWarmupComplete, warmupCandlesCount, histVars, cfgVars, lifeVars,
                      loopVars, engVars>>
InitCalls ==
  \E l \in LibraryCombinations :
    \/ \E e \in StatefulEngines : InitCall(<<>>, l, e)
    \/ \E n \in FlatLengths : InitCall(FlatHistory(n), l, "V12")
SpecCalls == InitCalls /\ [][NextCalls]_vars

-----------------------------------------------------------------------------
(* Properties of the fixed-scoring engine, checked in SpecV12               *)

V12Called == v12Out # V12NotCalled
V12Returned == V12Called /\ v12Out # NoV12Signal

\* C12: called on 100 flat candles at 1.1000 the fixed-scoring engine returns
\* a signal (not null) whose confidence is an integer from 1 to 100 and whose
\* action is BUY or SELL
C12_FlatCandlesDecision ==
  (V12Called /\ candles = FlatHistory(100))
  => /\ v12Out # NoV12Signal
     /\ v12Out.confidence \in 1..100
     /\ v12Out.action \in {"BUY", "SELL"}

\* what the SMC library reports for the array the engine was called on
SmcOfCall == IF libs.smc THEN AnalyzeSmartMoney(candles) ELSE NoSmcData
OrderBlockPresent ==
  LET smc == SmcOfCall
  IN  smc.bullishOB \/ smc.bearishOB \/ smc.bullishBreakers \/ smc.bearishBreakers
FairValueGapPresent == SmcOfCall.bullishIMB \/ SmcOfCall.bearishIMB
PriceInOTEZone ==
  /\ SmcOfCall.enabled
  /\ SmcOfCall.ote # NoRange
  /\ IsInOTEZone(candles[Len(candles)].c, SmcOfCall.ote, v12Out.action)

\* C13: a signal of the fixed-scoring engine with confidence 50 or more has an
\* order block and a fair-value gap present and the last close inside the OTE
\* zone of its direction; a signal lacking any of these has confidence 45 or less
C13_HighConfidenceNeedsConfluence ==
  V12Returned
  => /\ v12Out.confidence >= 50
        => (OrderBlockPresent /\ FairValueGapPresent /\ PriceInOTEZone)
     /\ ~(OrderBlockPresent /\ FairValueGapPresent /\ PriceInOTEZone)
        => v12Out.confidence <= 45

-----------------------------------------------------------------------------
(* Properties of the engines called directly, checked in SpecCalls          *)

EngineCalled == engOut.kind # "none"
EngineSignalled == engOut.kind = "returned" /\ engOut.signal # NoSig

\* C11: every signal an engine returns (V12, V14, V17, V18) has a confidence
\* from 0 to 100, on conflicted and on tied buy and sell scores as well
C11_ConfidenceInRange ==
  /\ V12Returned => v12Out.confidence \in 0..100
  /\ EngineSignalled => engOut.signal.confidence \in 0..100
\* the fixed-scoring engine has returned a signal on tied scores
C11_Witness ==
  /\ V12Returned
  /\ v12Out.rawScore = 1
  /\ v12Out.confidence \in 0..100

\* C14: every signal an engine returns has the action BUY or SELL, never null
\* or any other value
C14_DirectionBuyOrSell ==
  /\ V12Returned => v12Out.action \in {"BUY", "SELL"}
  /\ EngineSignalled => engOut.signal.action \in {"BUY", "SELL"}
\* a signal built by triggerSignal from pairState.direction
C14_Witness ==
  /\ EngineSignalled
  /\ engine = "V18"
  /\ engOut.prior.status = "LIQUIDITY_SWEPT"
  /\ engOut.signal.action = "SELL"

\* C15: generateSignal called with fewer than 35 candles does not throw and
\* returns no signal, with the state that was passed in
C15_ShortHistoryNoSignal ==
  /\ (V12Called /\ Len(candles) < 35) => v12Out = NoV12Signal
  /\ (EngineCalled /\ engOut.len < 35)
     => /\ engOut.kind # "throws"
        /\ engOut.signal = NoSig
        /\ engOut.state = engOut.prior
\* a stateful engine with both libraries, holding a state in progress, called
\* with 34 candles
C15_Witness ==
  /\ EngineCalled
  /\ engOut.len = 34
  /\ engOut.kind = "returned"
  /\ engOut.prior.status = "LIQUIDITY_SWEPT"
  /\ engOut.state = engOut.prior

\* C16: an engine built while the indicator library or the SMC library was
\* missing returns no signal from every call and never throws
C16_MissingLibraryNoSignal ==
  (~libs.indicators \/ ~libs.smc)
  => /\ V12Called => v12Out = NoV12Signal
     /\ EngineCalled => (engOut.kind # "throws" /\ engOut.signal = NoSig)

-----------------------------------------------------------------------------
(* Properties of the tick loop's price guard, checked in SpecParsed         *)

\* the entry the last pass read for the pair is not a positive finite number
TickRejectable(fv) == fv.kind # "num" \/ fv.v <= 0 \/ fv.v >= Infinity
\* the pair's candles and last price are what they were before the pass
PairUntouched(p) ==
  IF p \in DOMAIN lastTick.buffers
  THEN /\ pairBuffers[p] = lastTick.buffers[p]
       /\ pairOhlcM1[p] = lastTick.ohlc[p]
       /\ pairLastPrices[p] = lastTick.prices[p]
  ELSE p \notin DOMAIN pairBuffers /\ p \notin DOMAIN pairOhlcM1 /\ p \notin DOMAIN pairLastPrices

\* C17: a tick whose price is non-numeric, non-positive or non-finite is
\* absent data: it creates no candle, changes no candle and leaves the
\* pair's last price as it was
C17_InvalidPriceIsAbsent ==
  \A p \in DOMAIN lastTick.feed : TickRejectable(lastTick.feed[p]) => PairUntouched(p)

-----------------------------------------------------------------------------
(* Cached and uncached getAll(), checked in SpecRing                        *)

\* C18: getAll() of the cached buffer returns the buffer's current contents,
\* every add and updateLast included, which is what getAll() of the uncached
\* buffer returns after the same operations
C18_CachedEqualsUncached ==
  /\ GetAllResult(ring) = GetAllUncached(ring)
  /\ GetAllResult(ring) = LastN(inserted, BufCapacity(ring))

\* a snapshot was cached and a write made it stale
C18_Witness ==
  /\ ring.hasCached
  /\ ~ring.cacheValid
  /\ ring.cachedResult # GetAllUncached(ring)
  /\ Len(ring.cachedResult) = Len(GetAllUncached(ring))

-----------------------------------------------------------------------------
(* Properties of recordSignal and finalizeSignal, checked in SpecFinalize   *)

\* a step that created a signal object is a call of recordSignal on it
C19_RecordStep ==
  Len(signals') = Len(signals) + 1 =>
    LET id == Len(signals')
    IN  /\ mostRecentSignal' = id
        /\ totalSignals' = totalSignals + 1
        /\ highConfSignals' =
             IF signals'[id].confidence >= 70 THEN highConfSignals + 1 ELSE highConfSignals
        /\ UNCHANGED <<winningSignals, losingSignals, highConfWins, highConfLosses>>

\* C19: each call of recordSignal makes its signal the most recent one, adds
\* one to the total counter, adds one to the high-confidence counter exactly
\* when the confidence is 70 or more, and leaves the win and loss counters
\* as they were
C19_RecordCounts == [][C19_RecordStep]_vars

\* a signal of confidence exactly 70 was recorded and counted as high-confidence
C19_Witness ==
  /\ Len(signals) = 1
  /\ signals[1].confidence = 70
  /\ mostRecentSignal = 1
  /\ totalSignals = 1
  /\ highConfSignals = 1

\* a step that gave the signal of identity id its result
Resolves(id) == signals[id].result = "null" /\ signals'[id].result # "null"
C20_FinalizeStep ==
  \A id \in 1..Len(signals) :
    Resolves(id) =>
      LET signal == signals[id]
          price == pairLastPrices[signal.pair]
      IN  signals'[id].result =
            IF \/ signal.action = "BUY" /\ price > signal.entryPrice
               \/ signal.action = "SELL" /\ price < signal.entryPrice
            THEN "WIN" ELSE "LOSS"

\* C20: a signal that finalizeSignal resolves is a WIN exactly when it is a
\* BUY and the pair's price is then above the entry price, or a SELL and the
\* price is below it; otherwise, an unchanged price included, it is a LOSS
C20_WinIffPriceMoved == [][C20_FinalizeStep]_vars

\* a BUY resolved at its entry price: a LOSS
C20_Witness ==
  \E id \in 1..Len(signals) :
    /\ signals[id].action = "BUY"
    /\ signals[id].result = "LOSS"
    /\ signals[id].exitPrice = signals[id].entryPrice

-----------------------------------------------------------------------------
(* Properties of the losing streak, checked in SpecRestored                 *)

C21_StreakStep ==
  \A id \in 1..Len(signals) :
    (signals[id].result = "null" /\ signals'[id].result # "null") =>
      consecutiveLossesCount' =
        IF signals'[id].result = "LOSS" THEN consecutiveLossesCount + 1 ELSE 0

\* C21: each time a recorded signal resolves LOSS the consecutive-loss counter
\* grows by exactly one, and each time one resolves WIN it is set to zero
C21_StreakFollowsResults == [][C21_StreakStep]_vars

\* a signal resolved LOSS on top of a streak restored from storage
C21_Witness ==
  \E id \in 1..Len(signals) :
    /\ signals[id].result = "LOSS"
    /\ losingSignals > 1
    /\ consecutiveLossesCount = losingSignals

-----------------------------------------------------------------------------
(* Properties of Deep Sight, checked in SpecOracle                          *)

\* the shadow trades of a state that are due at the time ts
DueTrades(pairState, ts) ==
  {i \in 1..Len(pairState.deepSight.shadowTrades) :
     ts >= pairState.deepSight.shadowTrades[i].expiry}

C23_Bounded ==
  engState # NullState =>
    LET h == engState.deepSight.virtualHistory
        wins == Cardinality({i \in 1..Len(h) : h[i] = "WIN"})
        r == engState.deepSight.winRate
    IN  /\ Len(h) <= (IF engine = "V18" THEN 10 ELSE 5)
        /\ Len(h) = 0 => r = 0
        /\ Len(h) > 0 => /\ 2 * r * Len(h) - Len(h) <= 200 * wins
                         /\ 200 * wins < 2 * r * Len(h) + Len(h)
C23_EvictStep ==
  (engState # NullState /\ engState' # NullState /\ engState' # engState) =>
    LET h == engState.deepSight.virtualHistory
        g == engState'.deepSight.virtualHistory
        k == Cardinality(DueTrades(engState, now))
        cap == IF engine = "V18" THEN 10 ELSE 5
        dropped == Len(h) + k - Len(g)
    IN  /\ Len(g) = (IF Len(h) + k > cap THEN cap ELSE Len(h) + k)
        /\ \A i \in 1..(Len(g) - k) : g[i] = h[i + dropped]

\* C23: the shadow-outcome history of an instrument never holds more than 5
\* (V17) or 10 (V18) entries, an outcome appended to a full history evicts the
\* oldest one, and the win rate is the rounded percentage of WIN entries of the
\* history (0 when it is empty)
C23_RollingHistory == []C23_Bounded /\ [][C23_EvictStep]_vars

\* a full V18 history that has lost the WIN it started with and gained another
C23_Witness ==
  /\ engine = "V18"
  /\ engState # NullState
  /\ Len(engState.deepSight.virtualHistory) = 10
  /\ engState.deepSight.virtualHistory[1] = "LOSS"
  /\ engState.deepSight.virtualHistory[10] = "WIN"
  /\ engState.deepSight.winRate = 10

\* the shadow trades a state holds, and those of them not yet due at ts
PendingTrades(pairState) ==
  IF pairState = NullState THEN <<>> ELSE pairState.deepSight.shadowTrades
StillOpen(pairState, ts) ==
  SelectSeq(PendingTrades(pairState), LAMBDA trade : ~(ts >= trade.expiry))
\* the step appended one shadow trade opened now to those still open
RecordsShadowTrade ==
  /\ Len(PendingTrades(engState')) = Len(StillOpen(engState, now)) + 1
  /\ PendingTrades(engState')[Len(PendingTrades(engState'))].expiry = now + 180000
  /\ PendingTrades(engState')[Len(PendingTrades(engState'))].direction \in {"BUY", "SELL"}
  /\ PendingTrades(engState')[Len(PendingTrades(engState'))].startPrice \in PriceValues
\* the step left the shadow trades still open as they were
RecordsNoShadowTrade == PendingTrades(engState') = StillOpen(engState, now)
\* the step detected a sweep from the idle state: the state machine now waits
\* for the rejection since this call, or the call went on to fire the signal
WasIdle == engState = NullState \/ engState.status = "IDLE"
EntersSwept ==
  /\ engState'.status = "LIQUIDITY_SWEPT"
  /\ WasIdle \/ engState'.lastUpdateCandle # engState.lastUpdateCandle
FiresSignal ==
  /\ engState'.lastSignalTimestamp = now
  /\ engState = NullState \/ engState.lastSignalTimestamp # now

C24_EveryCycleStep == engState' # engState => RecordsShadowTrade
\* C24 as stated: every engine cycle for an instrument records a shadow trade
\* for it, whether or not a real signal fires in that cycle
C24_EveryCycleRecords == [][C24_EveryCycleStep]_vars

C24_SweepStep ==
  engState' # engState =>
    /\ EntersSwept => RecordsShadowTrade
    /\ (FiresSignal /\ WasIdle) => RecordsShadowTrade
    /\ (~EntersSwept /\ ~FiresSignal) => RecordsNoShadowTrade
    /\ RecordsShadowTrade \/ RecordsNoShadowTrade
\* C24, amended: an engine cycle records a shadow trade (direction, entry
\* price, expiry three minutes ahead) for the instrument when it detects a
\* liquidity sweep from the idle state, whether or not a real signal fires in
\* that cycle, and records none in a cycle that detects no such sweep
C24_SweepCycleRecords == [][C24_SweepStep]_vars

\* a sweep was logged and the rejection has not come: no signal, one shadow trade
C24_Witness ==
  /\ engState # NullState
  /\ engState.status = "LIQUIDITY_SWEPT"
  /\ engState.lastSignalTimestamp = 0
  /\ Len(engState.deepSight.shadowTrades) = 1
  /\ engState.deepSight.shadowTrades[1].expiry = now + 180000
  /\ engState.deepSight.shadowTrades[1].direction = engState.direction

-----------------------------------------------------------------------------
(* Properties of the shadow recovery, checked in SpecRecovery               *)

\* a shadow trade of the pair resolves WIN in this step
ShadowWinResolves(pair) ==
  /\ pair \in DOMAIN pairEngineStates
  /\ pairEngineStates'[pair] # pairEngineStates[pair]
  /\ \E i \in 1..Len(pairEngineStates[pair].deepSight.shadowTrades) :
       /\ now >= pairEngineStates[pair].deepSight.shadowTrades[i].expiry
       /\ ShadowIsWin(pairEngineStates[pair].deepSight.shadowTrades[i], pairLastPrices'[pair])
C22_RecoveryStep ==
  \A pair \in FeedPairs :
    (ShadowWinResolves(pair) /\ consecutiveLossesCount > 0) =>
      consecutiveLossesCount' = consecutiveLossesCount - 1

\* C22: whenever a shadow trade of an instrument resolves WIN while the
\* consecutive-loss counter is above zero the counter goes down by one, and the
\* counter is never negative
C22_ShadowWinRecovers == [](consecutiveLossesCount >= 0) /\ [][C22_RecoveryStep]_vars

-----------------------------------------------------------------------------
(* Properties of the signal history, checked in SpecRestored and SpecSave   *)

\* C26: the signal-history list never holds more than 50 entries, however
\* many signals were recorded
C26_HistoryBounded == Len(signalHistory) <= 50

\* C27: a saveState whose write failed on the storage quota leaves the history
\* pruned to at most 25 entries and returns to its caller: the failure does
\* not propagate
C27_QuotaFailureContained ==
  /\ justCalled \in {"saveState pruned and returned", "saveState threw"} =>
       Len(signalHistory) <= 25
  /\ justCalled # "saveState threw"

-----------------------------------------------------------------------------
(* Properties of the v15 driver's selection, checked in SpecBest            *)

\* the pairs whose candidate the cycle of this step could choose from
Eligible(pair) ==
  /\ pair \in DOMAIN pairWarmupComplete /\ pairWarmupComplete[pair]
  /\ emitted'[pair].payout >= 80
  /\ emitted'[pair].candidate.action # "null"
  /\ emitted'[pair].candidate.confidence >= 70
\* the candidate of pair is ranked no lower than the one of other
RanksNoLower(pair, other) ==
  LET a == emitted'[pair]
      b == emitted'[other]
  IN  \/ a.candidate.confidence > b.candidate.confidence
      \/ /\ a.candidate.confidence = b.candidate.confidence
         /\ a.payout > b.payout
      \/ /\ a.candidate.confidence = b.candidate.confidence
         /\ a.payout = b.payout
         /\ a.candidate.duration <= b.candidate.duration
C25_CycleStep ==
  /\ Len(signals') <= Len(signals) + 1
  /\ Len(signals') = Len(signals) + 1 =>
       LET recorded == signals'[Len(signals')]
       IN  /\ Eligible(recorded.pair)
           /\ recorded.confidence = emitted'[recorded.pair].candidate.confidence
           /\ recorded.duration = emitted'[recorded.pair].candidate.duration
           /\ \A other \in RankedPairs : Eligible(other) => RanksNoLower(recorded.pair, other)

\* C25: a signal-generation cycle records at most one signal, and the one it
\* records is the candidate of an eligible pair with the highest confidence,
\* among equals the higher payout, among those the shorter duration
C25_BestOfCycle == [][C25_CycleStep]_vars

\* three eligible candidates of equal confidence: the recorded one is not the
\* first in key order, it won on payout against one and on duration against another
C25_Witness ==
  /\ Len(signals) = 1
  /\ signals[1].pair = "AUD/USD_OTC"
  /\ DOMAIN pairWarmupComplete = RankedPairs
  /\ \A p \in RankedPairs :
       /\ pairWarmupComplete[p]
       /\ emitted[p].candidate.action = "BUY"
       /\ emitted[p].candidate.confidence = 70
       /\ emitted[p].payout >= 80
  /\ emitted["EUR/USD_OTC"].payout < emitted["AUD/USD_OTC"].payout
  /\ emitted["GBP/USD_OTC"].payout = emitted["AUD/USD_OTC"].payout
  /\ emitted["GBP/USD_OTC"].candidate.duration > emitted["AUD/USD_OTC"].candidate.duration
  /\ signals[1].duration = emitted["AUD/USD_OTC"].candidate.duration

-----------------------------------------------------------------------------
(* Properties of the SMC library's sweep ratio and breaker blocks           *)

\* the ATR of the array called on is more than n / d percent of the average
\* of the last candle's high and low
AtrPercentAbove(n, d) ==
  200 * SmcCalculateATR(candles).current.num * d >
    n * (candles[Len(candles)].h + candles[Len(candles)].l) * SmcCalculateATR(candles).current.den

\* C28: getDynamicSweepWickRatio returns 0.4 when the ATR is above 0.1% of the
\* price, 0.5 when it is above 0.05%, and 0.6 below that
C28_RatioFollowsVolatility ==
  engOut.kind = "ratio" =>
    engOut.ratio = IF AtrPercentAbove(1, 10) THEN 40
                   ELSE IF AtrPercentAbove(5, 100) THEN 50 ELSE 60

\* the order block at position ob was touched by a later candle
Touched(ob) ==
  \E i \in (ob + 1)..Len(candles) : candles[i].l <= candles[ob].h /\ candles[i].h >= candles[ob].l
\* there is a bullish order block that was touched, and a bullish sweep took
\* place on a candle at most 10 candles before it
SweptBullishOrderBlock ==
  \E ob \in BullishOB(candles) :
    /\ Touched(ob)
    /\ \E s \in 1..(ob - 1) :
         ob - s <= 10 /\ BullishSweeps(SubSeq(candles, 1, s)) # {}

\* C29: an order block touched after a liquidity sweep that took place within
\* the lookback is reported by the analysis as a breaker block
C29_SweptOrderBlockIsBreaker ==
  (V12Called /\ SmcOfCall.enabled /\ SweptBullishOrderBlock) => SmcOfCall.bullishBreakers

-----------------------------------------------------------------------------
(* Properties of detectRSIDivergence, checked in SpecDivergence             *)

\* the window of the call, and the bars of it before the current one
DivWindow == LastN(candles, 10)
EarlierBars == 1..(Len(DivWindow) - 1)
CurrentBar == DivWindow[Len(DivWindow)]
\* the current price is below (above) every earlier price of the window
NewLow == \A i \in EarlierBars : CurrentBar.c < DivWindow[i].c
NewHigh == \A i \in EarlierBars : CurrentBar.c > DivWindow[i].c
\* the lowest (highest) RSI of the window is at a bar at least 3 bars before
\* the current one and is below (above) the current RSI
EarlierTrough ==
  \E i \in 1..(Len(DivWindow) - 3) :
    /\ \A j \in 1..Len(DivWindow) : DivWindow[i].rsi <= DivWindow[j].rsi
    /\ DivWindow[i].rsi < CurrentBar.rsi
EarlierPeak ==
  \E i \in 1..(Len(DivWindow) - 3) :
    /\ \A j \in 1..Len(DivWindow) : DivWindow[i].rsi >= DivWindow[j].rsi
    /\ DivWindow[i].rsi > CurrentBar.rsi

\* C30: detectRSIDivergence flags a bullish divergence whenever the current
\* price is a new low of the lookback window while the RSI trough lies at least
\* 3 bars back and below the current RSI, and a bearish one in the mirrored case
C30_DivergenceFlagged ==
  (engOut.kind = "divergence" /\ Len(candles) >= 10) =>
    /\ (NewLow /\ EarlierTrough) => engOut.result.bullish
    /\ (NewHigh /\ EarlierPeak) => engOut.result.bearish

-----------------------------------------------------------------------------
(* Properties of calculateBQI, checked in SpecBQI                           *)

\* C31: calculateBQI returns a value from 0 to 100 for every breaking candle
\* and every window of preceding candles
C31_BqiInRange == engOut.kind = "bqi" => engOut.bqi \in 0..100
\* a candle that is all body, far larger than the five before it, scores 100
C31_Witness ==
  /\ engOut.kind = "bqi" /\ engOut.bqi = 100
  /\ Len(candles) >= 6
  /\ candles[Len(candles)].h - candles[Len(candles)].l = 30
  /\ Abs(candles[Len(candles)].c - candles[Len(candles)].o) = 30

-----------------------------------------------------------------------------
(* Properties of calculateRSI, checked in SpecRSI                           *)

\* the fraction v is a number from 0 to 100
FromZeroToHundred(v) ==
  \/ v.den > 0 /\ 0 <= v.num /\ v.num <= 100 * v.den
  \/ v.den < 0 /\ 0 >= v.num /\ v.num >= 100 * v.den
-----------------------------------------------------------------------------
(* Properties of findSwingPoints, checked in SpecSwing                      *)

\* C33: with the roles of high and low swapped, every swing high becomes a
\* swing low at the same index and every swing low a swing high
C33_MirrorSwapsSwings ==
  engOut.kind = "swing" =>
    /\ engOut.mirrored.swingLows = engOut.points.swingHighs
    /\ engOut.mirrored.swingHighs = engOut.points.swingLows
\* a call on an array with a swing high and no swing low at that index
C33_Witness ==
  /\ engOut.kind = "swing"
  /\ engOut.points.swingHighs # {}
  /\ engOut.points.swingHighs # engOut.points.swingLows
  /\ engOut.mirrored.swingLows # {}

-----------------------------------------------------------------------------
(* Properties of processMarketSnapshot, checked in SpecSnapshot             *)

-----------------------------------------------------------------------------
(* Properties of the aggregate counters, checked in SpecLife                *)

\* C35: in every reachable state wins + losses <= total and
\* highConfWins + highConfLosses <= highConfSignals, for every interleaving of
\* record, finalize callbacks and RESET_HISTORY
C35_CountersConsistent ==
  /\ winningSignals + losingSignals <= totalSignals
  /\ highConfWins + highConfLosses <= highConfSignals

-----------------------------------------------------------------------------
(* Properties of the state returned with a signal, checked in SpecCalls     *)

\* no call returns a state with the status RETEST, and a state returned with
\* a signal is idle and has no direction
C36_ReturnedStates ==
  /\ engOut.kind = "returned" => engOut.state.status # "RETEST"
  /\ engState.status # "RETEST"
  /\ (engOut.kind = "returned" /\ engOut.signal # NoSig)
     => (engOut.state.status = "IDLE" /\ engOut.state.direction = "null")
\* the state returned with a signal carries the time of the call
C36_CooldownStep ==
  (engOut' # engOut /\ engOut'.kind = "returned" /\ engOut'.signal # NoSig)
  => (engOut'.state.lastSignalTimestamp = now /\ now' = now)
\* C36: a call of a state-machine engine that returns a signal returns the
\* state IDLE with direction null and the cooldown timestamp of that call; no
\* returned state has the status RETEST
C36_SignalResetsState == []C36_ReturnedStates /\ [][C36_CooldownStep]_vars
\* V14Engine has returned a signal from the status CHOCH after an earlier
\* signal
C36_Witness ==
  /\ engine = "V14"
  /\ engOut.kind = "returned" /\ engOut.signal # NoSig
  /\ engOut.prior.status = "CHOCH"
  /\ engOut.prior.lastSignalTimestamp > 0
  /\ engOut.state.lastSignalTimestamp = now
  /\ engOut.state.lastSignalTimestamp > engOut.prior.lastSignalTimestamp
  /\ engOut.state.status = "IDLE"

----------------------------------------------------------------------------
(* The signal loop at interval boundaries                                  *)

\* second 0 of a wall-clock minute that is a multiple of the configured interval
AtBoundary(m) ==
  /\ AbsoluteMinute(now) = m
  /\ now % 60000 = 0
  /\ ((now \div 60000) % 60) % signalIntervalMinutes = 0
GenerationCalledIn(m) ==
  \E i \in 1..Len(generationCalls) : generationCalls[i] \div 60000 = m

BoundaryMinutes == {m \in 0..BoundaryHorizon : m % DefaultInterval = 0}

\* C37: for every configured interval, each wall-clock minute that is a
\* multiple of the interval eventually triggers a signal-generation call, the
\* later boundaries as well as the first (that no minute triggers more than
\* one call is C6_OncePerBoundary).
C37_EveryBoundaryFires ==
  \A m \in BoundaryMinutes : AtBoundary(m) ~> GenerationCalledIn(m)

----------------------------------------------------------------------------
(* The engine cooldown and the signals recorded                            *)

\* the cooldown of pair p starts in this step: its lastSignalTimestamp changes
CooldownStarts(p) ==
  /\ p \in DOMAIN pairEngineStates'
  /\ pairEngineStates'[p].status # "null"
  /\ pairEngineStates'[p].lastSignalTimestamp # 0
  /\ \/ p \notin DOMAIN pairEngineStates
     \/ pairEngineStates[p].status = "null"
     \/ pairEngineStates[p].lastSignalTimestamp # pairEngineStates'[p].lastSignalTimestamp
RecordedFor(p) ==
  /\ Len(signals') = Len(signals) + 1
  /\ signals'[Len(signals')].pair = p

\* C38: an instrument's engine cooldown starts only in a cycle that records a
\* signal for that instrument; a candidate the confidence filter or the
\* ranking discards leaves the instrument out of cooldown.
C38_CooldownOnlyWhenRecorded ==
  [][\A p \in RankedPairs : CooldownStarts(p) => RecordedFor(p)]_vars

----------------------------------------------------------------------------
(* Warmup and the signals recorded                                         *)

\* the number of candles the history of pair p holds
CandlesHeld(p) == IF p \in DOMAIN candleCount THEN candleCount[p] ELSE 0

\* C39: a signal is recorded only for an instrument whose history holds at
\* least warmupCandlesCount candles, as the count is configured at that
\* moment, SET_WARMUP messages included.
C39_RecordedOnlyWhenWarm ==
  [][Len(signals') = Len(signals) + 1 =>
       CandlesHeld(signals'[Len(signals')].pair) >= warmupCandlesCount]_vars

----------------------------------------------------------------------------
(* The Auto Trader's duplicate cooldown                                    *)

\* C40: no two trades with the same (pair, action, minutes) key are executed
\* within 60 seconds of each other, whether the signal came from the fresh
\* feed or from the priority buffer.
C40_NoDuplicateWithinCooldown ==
  \A i, j \in 1..Len(engState.trades) :
    (i < j /\ engState.trades[i].key = engState.trades[j].key)
      => engState.trades[j].at - engState.trades[i].at >= 60000

====
